---- MODULE Spec2Model ----
(***************************************************************************)
(* kyubisweep: the quarantine relocation protocol (pkg/quarantine, the     *)
(* copy-first version that reads the operator's answers from inputReader)  *)
(* and the concurrent scan pipeline of cmd/kyubisweep (runScan).           *)
(*                                                                         *)
(* Six state machines share this module.  SpecQuarantine runs            *)
(* handleQuarantine / QuarantineFiles over a small file system;  SpecScan  *)
(* runs the walker, the worker pool, the closer goroutine and the          *)
(* aggregator of runScan;  SpecWalk runs scanner.Walk, entry by entry,     *)
(* over a small directory tree;  SpecMerge runs scanner.MergeExtensions;    *)
(* SpecEntropy runs analyzer.CalculateEntropy;  SpecAnalyze runs           *)
(* analyzer.AnalyzeFile, line by line, over a small file.  The variables   *)
(* of the machines that are not running stay at their idle values.         *)
(***************************************************************************)
EXTENDS Integers, Sequences, FiniteSets, TLC

VARIABLES
    \* ---- quarantine ----
    entry,        \* "main": handleQuarantine is the caller; "api": QuarantineFiles is called directly
    args,         \* main: the FilePath of each finding; api: the filePaths argument
    pc,           \* position of the quarantine thread
    filePaths,    \* the filePaths argument of QuarantineFiles
    stdin,        \* inputReader: the lines not yet handed to a bufio.Reader
    confirmInput, \* ConfirmQuarantine: input as returned by ReadString
    confirmErr,   \* ConfirmQuarantine: err as returned by ReadString
    confirmed,    \* ConfirmQuarantine's return value ("none" before the call)
    dirState,     \* the target directory: "dir", "absent" or "uncreatable"
    fs,           \* the regular files: path -> content
    fs0,          \* the files when the run started
    now,          \* the wall clock, in seconds
    i,            \* index of the range loop over filePaths
    movedFiles,   \* movedFiles map (its key set)
    results,      \* results slice
    qerr,         \* the error QuarantineFiles returns
    targetPath,   \* targetPath of the current iteration
    err,          \* err of the current iteration: of copyFile, then of os.Remove
    preExisting,  \* the paths that existed when the current copy started
    \* ---- scan (runScan) ----
    showAll,      \* the showAll argument (--all)
    kinds,        \* what each file of the tree holds, in the order Walk visits them
    walkNext,     \* index of the next file Walk will send
    walkerPc,     \* the walker goroutine: "walk" or "done"
    filePathsCh,  \* chan string: [buf, closed]
    resultsCh,    \* chan analyzer.Finding: [buf, closed]
    fileCountCh,  \* chan int: [buf, closed]
    wg,           \* sync.WaitGroup counter
    worker,       \* per worker: [pc, found, localCount]
    closerPc,     \* the goroutine that waits and closes: "wait", "closeCount", "done"
    aggPc,        \* the caller of runScan: "results", "counts", "returned"
    allFindings,  \* allFindings slice
    totalFiles,   \* totalFiles
    \* ---- walk (scanner.Walk) ----
    walkPc,       \* Walk: "start", "walk" or "done"
    rootName,     \* the name os.Lstat(rootPath) reports for the root
    rootErr,      \* what fails on the root: "none", "lstat" or "readdir"
    tree,         \* the entries below the root: [parent, name, isDir, size, err]
    allowedExtensions, \* the allowedExtensions argument of Walk
    todo,         \* the entries WalkDir has read and not yet visited, next first
    emitted,      \* the paths sent on filePaths, in order
    \* ---- merge (scanner.MergeExtensions) ----
    mergePc,      \* MergeExtensions: "call", "copy", "add" or "done"
    extras,       \* the additional argument
    maps,         \* the maps of the heap: reference -> key set
    merged,       \* merged: the reference make returned (0 before)
    mergeIdx,     \* index of the range loop over additional
    \* ---- entropy (analyzer.CalculateEntropy) ----
    entPc,        \* "call" or "done"
    str,          \* the argument s
    entropy,      \* the value returned, in millionths of a bit
    \* ---- analyze (analyzer.AnalyzeFile) ----
    anPc,         \* AnalyzeFile: "open", "scan" or "done"
    file,         \* the lines of the file: [text, pad]
    openFails,    \* os.Open returns an error
    scanPos,      \* the lines the bufio.Scanner has handed out
    lineNumber,   \* lineNumber
    findings      \* findings

qvars == <<entry, args, pc, filePaths, stdin, confirmInput, confirmErr, confirmed,
           dirState, fs, fs0, now, i, movedFiles, results, qerr, targetPath, err,
           preExisting>>

svars == <<showAll, kinds, walkNext, walkerPc, filePathsCh, resultsCh, fileCountCh, wg,
           worker, closerPc, aggPc, allFindings, totalFiles>>

wvars == <<walkPc, rootName, rootErr, tree, allowedExtensions, todo, emitted>>

mvars == <<mergePc, extras, maps, merged, mergeIdx>>

evars == <<entPc, str, entropy>>

avars == <<anPc, file, openFails, scanPos, lineNumber, findings>>

vars == <<qvars, svars, wvars, mvars, evars, avars>>

-----------------------------------------------------------------------------
(* Bounds of the model *)

\* longest filePaths / findings list
MaxPaths == 2
\* most lines on the operator's input stream
MaxLines == 2
\* last second of the wall clock
MaxClock == 1
\* most files Walk sends
MaxFiles == 2
MaxEntries == 3
\* size of the worker pool (10 in the program)
numWorkers == 2
\* capacity of the path stream (100 in the program)
PathCap == 1
\* capacity of the results stream (100 in the program)
ResultCap == 1
\* longest additional argument of MergeExtensions
MaxExtras == 2
\* longest argument of CalculateEntropy, in characters
MaxStrLen == 3
\* most lines of the file AnalyzeFile reads
MaxFileLines == 2

-----------------------------------------------------------------------------
(* Strings: a string is a sequence of characters *)

nil == "nil"
EOF == "EOF"

\* unicode.IsSpace on the characters of the model
IsSpace(c) == c \in {" ", "\n"}

UpperCase == <<"A", "B", "C", "D", "E", "F", "G", "H", "I", "J", "K", "L", "M",
               "N", "O", "P", "Q", "R", "S", "T", "U", "V", "W", "X", "Y", "Z">>

LowerCase == <<"a", "b", "c", "d", "e", "f", "g", "h", "i", "j", "k", "l", "m",
               "n", "o", "p", "q", "r", "s", "t", "u", "v", "w", "x", "y", "z">>

\* strings.ToLower, character by character
UpperToLower ==
    [c \in {UpperCase[k] : k \in DOMAIN UpperCase} |->
        LowerCase[CHOOSE k \in DOMAIN UpperCase : UpperCase[k] = c]]

LowerChar(c) == IF c \in DOMAIN UpperToLower THEN UpperToLower[c] ELSE c

ToLower(s) == [k \in 1..Len(s) |-> LowerChar(s[k])]

RECURSIVE TrimLeft(_)
TrimLeft(s) == IF s # <<>> /\ IsSpace(Head(s)) THEN TrimLeft(Tail(s)) ELSE s

RECURSIVE TrimRight(_)
TrimRight(s) ==
    IF s # <<>> /\ IsSpace(s[Len(s)]) THEN TrimRight(SubSeq(s, 1, Len(s) - 1)) ELSE s

\* strings.TrimSpace
TrimSpace(s) == TrimRight(TrimLeft(s))

\* bufio.Reader.ReadString('\n') on a stream of lines: the next line with its
\* delimiter, or what is left before the end of the stream together with io.EOF
ReadString(stream) ==
    IF stream = <<>>
        THEN [input |-> <<>>, err |-> EOF, rest |-> <<>>]
        ELSE LET line == Head(stream) IN
             [input |-> line,
              err   |-> IF line # <<>> /\ line[Len(line)] = "\n" THEN nil ELSE EOF,
              rest  |-> Tail(stream)]

-----------------------------------------------------------------------------
(* Paths and the file system *)

TargetDir == "vault"

FileName(stem, ext) == [stem |-> stem, ts |-> <<>>, ext |-> ext]

\* filepath.Join(dir, name)
Join(dir, name) == [dir |-> dir, name |-> name]

\* filepath.Base(path)
Base(path) == path.name

\* filepath.Dir(path)
Dir(path) == path.dir

\* filepath.Ext(path)
Ext(path) == path.name.ext

SecretTxt == FileName("secret", ".txt")
FileTxt   == FileName("file", ".txt")

PathA    == Join("a", SecretTxt)
PathB    == Join("b", SecretTxt)
PathGone == Join("nonexistent", FileTxt)

SrcPaths == {PathA, PathB, PathGone}

\* the source files that exist when the run starts, with their bytes
SrcFiles == (PathA :> "bytesA") @@ (PathB :> "bytesB")

\* a file left in the vault by an earlier run
OldVault == (Join(TargetDir, SecretTxt) :> "old")

Exists(f, path) == path \in DOMAIN f

\* resolveCollision, with the clock reading ts
resolveCollision(path, f, ts) ==
    IF ~Exists(f, path)
        THEN path
        ELSE Join(Dir(path),
                  [stem |-> Base(path).stem,
                   ts   |-> Append(Base(path).ts, ts),
                   ext  |-> Ext(path)])

\* the empty path string
NoPath == Join("", FileName("", ""))

\* os.WriteFile-like update of one file
WriteFile(f, path, content) ==
    [p \in DOMAIN f \cup {path} |-> IF p = path THEN content ELSE f[p]]

\* os.Remove
Remove(f, path) == [p \in DOMAIN f \ {path} |-> f[p]]

ErrOpen   == "failed to open source file"
ErrStat   == "failed to stat source file"
ErrCreate == "failed to create destination file"
ErrCopy   == "failed to copy file contents"
ErrSync   == "failed to sync destination file"
ErrDelete == "copied successfully but failed to delete original"
ErrMkdir  == "failed to create quarantine directory"

\* copyFile(src, dst): every outcome the file system may give, as the error
\* returned and the files afterwards.  The destination is opened with
\* O_WRONLY|O_CREATE|O_TRUNC, so an existing destination is truncated.
copyFile(f, d, src, dst) ==
    IF ~Exists(f, src)
        THEN {[err |-> ErrOpen, fs |-> f]}
        ELSE {[err |-> ErrOpen, fs |-> f],
              [err |-> ErrStat, fs |-> f],
              [err |-> ErrCreate, fs |-> f]}
             \cup
             (IF d = "dir"
                 THEN {[err |-> ErrCopy, fs |-> WriteFile(f, dst, "partial")],
                       [err |-> ErrSync, fs |-> WriteFile(f, dst, f[src])],
                       [err |-> nil,     fs |-> WriteFile(f, dst, f[src])]}
                 ELSE {})

-----------------------------------------------------------------------------
(* MoveResult values *)

\* result := MoveResult{OriginalPath: srcPath}
NewResult(src) == [OriginalPath |-> src, NewPath |-> NoPath, Success |-> FALSE, Error |-> nil]

\* mutant: the error is not recorded
CopyFailedNoError(result, e) == result

\* copyFile returned err
CopyFailed(result, e) == [result EXCEPT !.Success = FALSE, !.Error = e]

\* mutant: the failed removal falls through to the success branch
DeleteFailedAsSuccess(result) == [result EXCEPT !.Success = TRUE]

\* os.Remove returned an error
DeleteFailed(result) == [result EXCEPT !.Success = FALSE, !.Error = ErrDelete]

\* mutant: NewPath is left empty
DeletedNoPath(result, target) == [result EXCEPT !.Success = TRUE]

\* the original was removed
Deleted(result, target) == [result EXCEPT !.Success = TRUE, !.NewPath = target]

\* mutant: keeping the original is reported as a failure
KeptAsFailure(result, target) == [result EXCEPT !.NewPath = target]

\* the operator kept the original
Kept(result, target) == [result EXCEPT !.Success = TRUE, !.NewPath = target]

-----------------------------------------------------------------------------
(* The operator's answers *)

\* mutant: any answer that starts with "y" deletes
IsYesPrefix(input) ==
    LET t == TrimSpace(ToLower(input)) IN t # <<>> /\ t[1] = "y"

\* input = strings.TrimSpace(strings.ToLower(input)); input == "y"
IsYes(input) == TrimSpace(ToLower(input)) = <<"y">>

\* mutant: the read error is dropped
ConfirmIgnoringErr(input, e) ==
    TrimSpace(ToLower(input)) \in {<<"y", "e", "s">>, <<"y">>}

\* ConfirmQuarantine's result from what ReadString returned
ConfirmAccepts(input, e) ==
    IF e # nil
        THEN FALSE
        ELSE TrimSpace(ToLower(input)) \in {<<"y", "e", "s">>, <<"y">>}

\* mutant: no path counts as seen
NeverMoved(moved, src) == FALSE

\* if movedFiles[srcPath] { continue }
AlreadyMoved(moved, src) == src \in moved

-----------------------------------------------------------------------------
(* Inputs *)

\* sequences over S of length at most n
BSeq(S, n) == UNION {[1..k -> S] : k \in 0..n}

Lines == {<<"y", "\n">>, <<" ", "Y", " ", "\n">>, <<"y", "e", "s", "\n">>, <<"\n">>}

\* a last line the stream ends in the middle of
Unterminated == {<<"y">>}

Streams ==
    {s \in BSeq(Lines \cup Unterminated, MaxLines) :
        \A k \in 1..(Len(s) - 1) : s[k] \in Lines}

\* the orders in which a map's keys may be ranged over
Orderings(S) ==
    {s \in [1..Cardinality(S) -> S] : \A a, b \in DOMAIN s : a # b => s[a] # s[b]}

Range(s) == {s[k] : k \in DOMAIN s}

-----------------------------------------------------------------------------
(* The scan pipeline: findings and channels *)

Workers == 1..numWorkers

\* what AnalyzeFile finds in a file of each kind, as <<line, severity>>;
\* a file that cannot be opened yields no finding
KindFindings(kind) ==
    CASE kind = "unreadable" -> <<>>
      [] kind = "high"       -> <<<<1, "HIGH">>>>
      [] kind = "mixed"      -> <<<<1, "MEDIUM">>, <<3, "HIGH">>>>

FileKinds == {"unreadable", "high", "mixed"}

\* mutant: the findings come last line first
AnalyzeFileReversed(ks, path) ==
    LET fnd == KindFindings(ks[path]) IN
    [k \in 1..Len(fnd) |->
        [FilePath |-> path, LineNumber |-> fnd[Len(fnd) + 1 - k][1],
         Severity |-> fnd[Len(fnd) + 1 - k][2]]]

\* AnalyzeFile(filePath): the findings of file number path
AnalyzeFile(ks, path) ==
    LET fnd == KindFindings(ks[path]) IN
    [k \in 1..Len(fnd) |->
        [FilePath |-> path, LineNumber |-> fnd[k][1], Severity |-> fnd[k][2]]]

\* make(chan T, n)
MakeChan == [buf |-> <<>>, closed |-> FALSE]

\* mutant: the value is lost
SendLost(ch, v) == ch

\* ch <- v, once there is room
Send(ch, v) == [ch EXCEPT !.buf = Append(@, v)]

\* <-ch, once there is a value
Receive(ch) == [ch EXCEPT !.buf = Tail(@)]

\* close(ch)
Close(ch) == [ch EXCEPT !.closed = TRUE]

\* mutant: the loop ends as soon as the stream is closed
ClosedOnly(ch) == ch.closed

\* a range loop over ch ends
Drained(ch) == ch.buf = <<>> /\ ch.closed

\* mutant: a send never waits
AlwaysRoom(ch, cap) == TRUE

\* a send on ch, made with capacity cap, can proceed
HasRoom(ch, cap) == Len(ch.buf) < cap

\* mutant: one Done releases the waiter
wgDoneAll(counter) == 0

\* wg.Done()
wgDone(counter) == counter - 1

\* mutant: Wait returns at once
WaitSkipped(counter) == TRUE

\* wg.Wait() returns
WaitDone(counter) == counter = 0

\* mutant: the last count replaces the sum
LastCount(total, count) == count

\* totalFiles += count
AddCount(total, count) == total + count

\* mutant: nothing is filtered
DroppedNever(all, finding) == FALSE

\* if !showAll && finding.Severity != "HIGH" { continue }
Dropped(all, finding) == ~all /\ finding.Severity # "HIGH"

\* the scan machine at rest, while the quarantine machine runs
IdleScan ==
    /\ showAll = FALSE
    /\ kinds = <<>>
    /\ walkNext = 0
    /\ walkerPc = "idle"
    /\ filePathsCh = MakeChan
    /\ resultsCh = MakeChan
    /\ fileCountCh = MakeChan
    /\ wg = 0
    /\ worker = <<>>
    /\ closerPc = "idle"
    /\ aggPc = "idle"
    /\ allFindings = <<>>
    /\ totalFiles = 0

-----------------------------------------------------------------------------
(* scanner.Walk: names, the extension sets and the callback *)

Dot == <<".">>

\* strings.HasPrefix(s, prefix)
HasPrefix(s, prefix) ==
    Len(s) >= Len(prefix) /\ SubSeq(s, 1, Len(prefix)) = prefix

\* filepath.Ext(name): the suffix of name from its last dot on, or ""
RECURSIVE ExtFrom(_, _)
ExtFrom(name, k) ==
    IF k = 0 THEN <<>>
    ELSE IF name[k] = "." THEN SubSeq(name, k, Len(name))
    ELSE ExtFrom(name, k - 1)

filepathExt(name) == ExtFrom(name, Len(name))

skipDirs == {
    <<".", "g", "i", "t">>, <<"n", "o", "d", "e", "_", "m", "o", "d", "u", "l", "e", "s">>,
    <<"v", "e", "n", "d", "o", "r">>, <<".", "i", "d", "e", "a">>,
    <<".", "v", "s", "c", "o", "d", "e">>,
    <<"_", "_", "p", "y", "c", "a", "c", "h", "e", "_", "_">>, <<".", "n", "e", "x", "t">>,
    <<"d", "i", "s", "t">>, <<"b", "u", "i", "l", "d">>, <<"t", "a", "r", "g", "e", "t">>,
    <<".", "g", "r", "a", "d", "l", "e">>, <<".", "n", "p", "m">>,
    <<".", "c", "a", "c", "h", "e">>
}

DefaultTextExtensions == {
    <<".", "e", "n", "v">>, <<".", "e", "n", "v", ".", "l", "o", "c", "a", "l">>,
    <<".", "e", "n", "v", ".", "d", "e", "v", "e", "l", "o", "p", "m", "e", "n", "t">>,
    <<".", "e", "n", "v", ".", "p", "r", "o", "d", "u", "c", "t", "i", "o", "n">>,
    <<".", "j", "s", "o", "n">>, <<".", "y", "a", "m", "l">>, <<".", "y", "m", "l">>,
    <<".", "t", "o", "m", "l">>, <<".", "x", "m", "l">>, <<".", "i", "n", "i">>,
    <<".", "c", "f", "g">>, <<".", "c", "o", "n", "f">>, <<".", "c", "o", "n", "f", "i", "g">>,
    <<".", "p", "r", "o", "p", "e", "r", "t", "i", "e", "s">>, <<".", "g", "o">>,
    <<".", "p", "y">>, <<".", "j", "s">>, <<".", "t", "s">>, <<".", "j", "s", "x">>,
    <<".", "t", "s", "x">>, <<".", "j", "a", "v", "a">>, <<".", "k", "t">>,
    <<".", "s", "c", "a", "l", "a">>, <<".", "r", "b">>, <<".", "p", "h", "p">>,
    <<".", "c", "s">>, <<".", "c", "p", "p">>, <<".", "c">>, <<".", "h">>,
    <<".", "h", "p", "p">>, <<".", "r", "s">>, <<".", "s", "w", "i", "f", "t">>, <<".", "m">>,
    <<".", "m", "m">>, <<".", "s", "h">>, <<".", "b", "a", "s", "h">>, <<".", "z", "s", "h">>,
    <<".", "f", "i", "s", "h">>, <<".", "p", "s", "1">>, <<".", "b", "a", "t">>,
    <<".", "c", "m", "d">>, <<".", "h", "t", "m", "l">>, <<".", "h", "t", "m">>,
    <<".", "c", "s", "s">>, <<".", "s", "c", "s", "s">>, <<".", "l", "e", "s", "s">>,
    <<".", "v", "u", "e">>, <<".", "s", "v", "e", "l", "t", "e">>, <<".", "m", "d">>,
    <<".", "m", "a", "r", "k", "d", "o", "w", "n">>, <<".", "t", "x", "t">>,
    <<".", "r", "s", "t">>, <<".", "s", "q", "l">>, <<".", "g", "r", "a", "p", "h", "q", "l">>,
    <<".", "g", "q", "l">>, <<".", "c", "s", "v">>, <<".", "t", "s", "v">>, <<".", "t", "f">>,
    <<".", "t", "f", "v", "a", "r", "s">>, <<".", "h", "c", "l">>,
    <<".", "d", "o", "c", "k", "e", "r", "f", "i", "l", "e">>,
    <<".", "d", "o", "c", "k", "e", "r", "i", "g", "n", "o", "r", "e">>,
    <<".", "g", "i", "t", "i", "g", "n", "o", "r", "e">>,
    <<".", "g", "i", "t", "a", "t", "t", "r", "i", "b", "u", "t", "e", "s">>,
    <<".", "e", "d", "i", "t", "o", "r", "c", "o", "n", "f", "i", "g">>,
    <<".", "p", "r", "e", "t", "t", "i", "e", "r", "r", "c">>,
    <<".", "e", "s", "l", "i", "n", "t", "r", "c">>, <<".", "p", "e", "m">>,
    <<".", "k", "e", "y">>, <<".", "c", "r", "t">>, <<".", "c", "e", "r">>,
    <<".", "p", "u", "b">>, <<".", "p", "p", "k">>, <<".", "i", "p", "y", "n", "b">>,
    <<".", "r", "m", "d">>, <<".", "l", "o", "g">>,
    <<".", "h", "t", "a", "c", "c", "e", "s", "s">>,
    <<".", "h", "t", "p", "a", "s", "s", "w", "d">>, <<".", "g", "r", "a", "d", "l", "e">>,
    <<".", "p", "l", "i", "s", "t">>, <<".", "x", "c", "c", "o", "n", "f", "i", "g">>
}

maxFileSize == 5 * 1024 * 1024

\* a Go map[string]bool whose stored values are all true; indexing a nil map
\* yields false
MapOf(keys) == [isNil |-> FALSE, keys |-> keys]

NilMap == [isNil |-> TRUE, keys |-> {}]

Index(m, key) == key \in m.keys

\* mutant: the case of the extra is kept
NormalizeExtKeepCase(ext) == IF HasPrefix(ext, Dot) THEN ext ELSE Dot \o ext

\* MergeExtensions: one extra, with the dot put in front and in lower case
NormalizeExt(ext) == ToLower(IF HasPrefix(ext, Dot) THEN ext ELSE Dot \o ext)

MergeExtensions(additional) ==
    MapOf(DefaultTextExtensions \cup {NormalizeExt(additional[k]) : k \in DOMAIN additional})

AllExtensions == NilMap

\* what the callback returns
SkipDir == "SkipDir"

ErrLstat == "lstat failed"
ErrReadDir == "readdir failed"
ErrInfo == "info failed"

\* mutant: the error is handed back to WalkDir
ErrReturnAbort(e) == e

\* the callback's return on an error: nil, the walk goes on
ErrReturn(e) == nil

\* mutant: only the listed names are pruned
skipListedOnly(dirName) == dirName \in skipDirs

\* the callback prunes the directory of this name
skipDir(dirName) ==
    \/ dirName \in skipDirs
    \/ HasPrefix(dirName, Dot) /\ dirName # Dot

DotEnv == <<".", "e", "n", "v">>

\* the hidden-file rule drops the file
hiddenSkipped(fileName, allowed) ==
    /\ HasPrefix(fileName, Dot)
    /\ fileName # DotEnv
    /\ ~HasPrefix(fileName, DotEnv \o Dot)
    /\ ~Index(allowed, fileName)

\* the extension rule drops the file
extSkipped(fileName, allowed) ==
    LET ext == ToLower(filepathExt(fileName)) IN
    IF ext = <<>> THEN ~Index(allowed, ToLower(fileName))
    ELSE ~Index(allowed, ext)

\* mutant: empty files pass
sizeSkippedBigOnly(size) == size > maxFileSize

\* the size rule drops the file
sizeSkipped(size) == size > maxFileSize \/ size = 0

\* the callback Walk hands to filepath.WalkDir, for the entry d and the error
\* e: what it returns and whether it sends the path
walkFn(d, e, allowedExts) ==
    LET allowed == IF allowedExts.isNil THEN MapOf(DefaultTextExtensions) ELSE allowedExts IN
    IF e # nil THEN [ret |-> ErrReturn(e), send |-> FALSE]
    ELSE IF d.isDir
        THEN [ret |-> IF skipDir(d.name) THEN SkipDir ELSE nil, send |-> FALSE]
    ELSE IF hiddenSkipped(d.name, allowed) \/ extSkipped(d.name, allowed)
        THEN [ret |-> nil, send |-> FALSE]
    ELSE IF d.err THEN [ret |-> ErrReturn(ErrInfo), send |-> FALSE]
    ELSE IF sizeSkipped(d.size) THEN [ret |-> nil, send |-> FALSE]
    ELSE [ret |-> nil, send |-> TRUE]

\* ---- the trees walked ----

\* the names of the model, in the byte order os.ReadDir sorts by
SortedNames == <<
    <<".">>,
    <<".", "c", "f", "g">>,
    <<".", "e", "n", "v">>,
    <<".", "e", "n", "v", ".", "l", "o", "c", "a", "l">>,
    <<".", "g", "i", "t", "i", "g", "n", "o", "r", "e">>,
    <<".", "h", "i", "d">>,
    <<"M", "a", "k", "e", "f", "i", "l", "e">>,
    <<"a", ".", "g", "o">>,
    <<"d", "i", "s", "t">>,
    <<"i", ".", "j", "p", "g">>,
    <<"p", "r", "o", "j">>,
    <<"s", "r", "c">>,
    <<"t", ".", "x", "y", "z">>
>>

Rank(name) == CHOOSE k \in DOMAIN SortedNames : SortedNames[k] = name

\* the root: ".", an ordinary name, a dot name, a listed name
RootNames == {Dot, <<"p", "r", "o", "j">>, <<".", "c", "f", "g">>, <<"d", "i", "s", "t">>}

DirNames == {<<"s", "r", "c">>, <<"d", "i", "s", "t">>, <<".", "h", "i", "d">>}

\* the file names drawn with each of Sizes
SizedNames == {<<"a", ".", "g", "o">>}

\* the file names drawn with one size
PlainNames == {
    <<"M", "a", "k", "e", "f", "i", "l", "e">>,
    <<"i", ".", "j", "p", "g">>,
    <<"t", ".", "x", "y", "z">>,
    <<".", "e", "n", "v">>,
    <<".", "e", "n", "v", ".", "l", "o", "c", "a", "l">>,
    <<".", "g", "i", "t", "i", "g", "n", "o", "r", "e">>}

Sizes == {0, maxFileSize, maxFileSize + 1}

DirEntry(name, e) == [name |-> name, isDir |-> TRUE, size |-> 0, err |-> e]

FileEntry(name, size, e) == [name |-> name, isDir |-> FALSE, size |-> size, err |-> e]

\* the entries a directory may hold; err: ReadDir fails on the directory,
\* Info() fails on the file
Entries ==
    {DirEntry(name, FALSE) : name \in DirNames}
    \cup {DirEntry(<<"s", "r", "c">>, TRUE)}
    \cup {FileEntry(name, size, FALSE) : name \in SizedNames, size \in Sizes}
    \cup {FileEntry(name, maxFileSize, FALSE) : name \in PlainNames}
    \cup {FileEntry(<<"a", ".", "g", "o">>, maxFileSize, TRUE)}

Node(parent, en) ==
    [parent |-> parent, name |-> en.name, isDir |-> en.isDir,
     size |-> en.size, err |-> en.err]

\* entry k lies in the root (0) or in an earlier directory, and the entries of
\* one directory are numbered in the order of their names, which are distinct
WellFormed(t) ==
    \A k \in DOMAIN t :
        /\ t[k].parent < k
        /\ t[k].parent # 0 => t[t[k].parent].isDir
        /\ \A j \in 1..(k - 1) :
              t[j].parent = t[k].parent => Rank(t[j].name) < Rank(t[k].name)

\* the trees of n entries: a tree of n - 1 entries and one more entry
RECURSIVE TreesOfSize(_)
TreesOfSize(n) ==
    IF n = 0 THEN {<<>>}
    ELSE {t \in {Append(u, Node(p, en)) :
                    u \in TreesOfSize(n - 1), p \in 0..(n - 1), en \in Entries} :
            WellFormed(t)}

Trees(max) == UNION {TreesOfSize(n) : n \in 0..max}

\* the allowedExtensions main builds: --all-files, --ext xyz, neither
ExtConfigs == {AllExtensions, MergeExtensions(<<<<"x", "y", "z">>>>), MapOf(DefaultTextExtensions)}

\* the root as a directory entry
RootEntry == DirEntry(rootName, rootErr = "readdir")

EntryOf(n) == IF n = 0 THEN RootEntry ELSE tree[n]

\* the path of entry n, as the names from the root down
RECURSIVE PathOf(_)
PathOf(n) == IF n = 0 THEN <<rootName>> ELSE Append(PathOf(tree[n].parent), tree[n].name)

\* os.ReadDir: the entries of directory n, sorted by name
ChildrenOf(n) == SelectSeq([k \in 1..Len(tree) |-> k], LAMBDA k : tree[k].parent = n)

\* the walk machine at rest
IdleWalk ==
    /\ walkPc = "idle"
    /\ rootName = <<>>
    /\ rootErr = "none"
    /\ tree = <<>>
    /\ allowedExtensions = NilMap
    /\ todo = <<>>
    /\ emitted = <<>>

-----------------------------------------------------------------------------
(* scanner.MergeExtensions over a heap of maps *)

\* the reference of the package-level map DefaultTextExtensions
DefaultsRef == 1

\* the extras a caller hands in: with and without the dot, in either case, one
\* that is a default already, and the empty string of "--ext a,,b"
ExtraStrings == {
    <<"x", "y", "z">>,
    <<".", "x", "y", "z">>,
    <<"X", "Y", "Z">>,
    <<".", "G", "o">>,
    <<"g", "o">>,
    <<>>}

\* the merge machine at rest
IdleMerge ==
    /\ mergePc = "idle"
    /\ extras = <<>>
    /\ maps = <<>>
    /\ merged = 0
    /\ mergeIdx = 0

-----------------------------------------------------------------------------
(* analyzer.CalculateEntropy.  A character is a rune; the two characters    *)
(* U+00E9 and U+20AC stand for the runes whose UTF-8 encodings take two and *)
(* three bytes.  Entropies are in millionths of a bit.                      *)

Elements(q) == {q[k] : k \in DOMAIN q}

\* utf8.RuneLen
RuneLen(c) == IF c = "U+20AC" THEN 3 ELSE IF c = "U+00E9" THEN 2 ELSE 1

\* len(s): the length of a string in bytes
RECURSIVE ByteLen(_)
ByteLen(s) == IF s = <<>> THEN 0 ELSE RuneLen(Head(s)) + ByteLen(Tail(s))

\* math.Log2 of 1..128, in millionths
Log2Micro == <<
    0, 1000000, 1584963, 2000000, 2321928, 2584963, 2807355, 3000000,
    3169925, 3321928, 3459432, 3584963, 3700440, 3807355, 3906891, 4000000,
    4087463, 4169925, 4247928, 4321928, 4392317, 4459432, 4523562, 4584963,
    4643856, 4700440, 4754888, 4807355, 4857981, 4906891, 4954196, 5000000,
    5044394, 5087463, 5129283, 5169925, 5209453, 5247928, 5285402, 5321928,
    5357552, 5392317, 5426265, 5459432, 5491853, 5523562, 5554589, 5584963,
    5614710, 5643856, 5672425, 5700440, 5727920, 5754888, 5781360, 5807355,
    5832890, 5857981, 5882643, 5906891, 5930737, 5954196, 5977280, 6000000,
    6022368, 6044394, 6066089, 6087463, 6108524, 6129283, 6149747, 6169925,
    6189825, 6209453, 6228819, 6247928, 6266787, 6285402, 6303781, 6321928,
    6339850, 6357552, 6375039, 6392317, 6409391, 6426265, 6442943, 6459432,
    6475733, 6491853, 6507795, 6523562, 6539159, 6554589, 6569856, 6584963,
    6599913, 6614710, 6629357, 6643856, 6658211, 6672425, 6686501, 6700440,
    6714246, 6727920, 6741467, 6754888, 6768184, 6781360, 6794416, 6807355,
    6820179, 6832890, 6845490, 6857981, 6870365, 6882643, 6894818, 6906891,
    6918863, 6930737, 6942515, 6954196, 6965784, 6977280, 6988685, 7000000>>

\* charCount once the range loop over s is done: one entry per rune
charCount(s) == [c \in Elements(s) |-> Cardinality({k \in DOMAIN s : s[k] = c})]

\* the loop over charCount: the sum of count * -log2(count / length)
RECURSIVE SumTerms(_, _, _)
SumTerms(counts, chars, length) ==
    IF chars = {} THEN 0
    ELSE LET c == CHOOSE x \in chars : TRUE IN
         counts[c] * (Log2Micro[length] - Log2Micro[counts[c]])
             + SumTerms(counts, chars \ {c}, length)

CalculateEntropy(s) ==
    IF ByteLen(s) = 0 THEN 0
    ELSE SumTerms(charCount(s), Elements(s), ByteLen(s)) \div ByteLen(s)

\* the characters of the arguments: two of one byte, one of two, one of three
EntropyChars == {"a", "b", "U+00E9", "U+20AC"}

\* the entropy machine at rest
IdleEntropy ==
    /\ entPc = "idle"
    /\ str = <<>>
    /\ entropy = 0

-----------------------------------------------------------------------------
(* analyzer.AnalyzeFile: the lines, the rules and the two passes *)

\* bufio.MaxScanTokenSize: the size the buffer of a bufio.Scanner grows to
MaxScanTokenSize == 64 * 1024

\* in millionths of a bit
EntropyThreshold == 4500000
MinEntropyLength == 20
MaxEntropyLength == 100

Quotes == {"'", "\""}

Digits == {"0", "1", "2", "3", "4", "5", "6", "7", "8", "9"}

Alnum == Digits \cup Elements(UpperCase) \cup Elements(LowerCase)

\* {n,} of a regular expression
Unbounded == -1

\* the rules of secretPatterns that the lines of the model can match, in the
\* order of the table: Pattern is the literal prefix followed by min to max
\* characters of class
secretPatterns == <<
    [Name |-> "AWS Access Key ID", Severity |-> "HIGH",
     prefix |-> <<"A", "K", "I", "A">>,
     class |-> Digits \cup Elements(UpperCase), min |-> 16, max |-> 16],
    [Name |-> "Stripe Publishable Key", Severity |-> "MEDIUM",
     prefix |-> <<"p", "k", "_", "l", "i", "v", "e", "_">>,
     class |-> Alnum, min |-> 24, max |-> Unbounded],
    [Name |-> "RSA Private Key", Severity |-> "HIGH",
     prefix |->
        <<"-", "-", "-", "-", "-", "B", "E", "G", "I", "N", " ", "R", "S", "A", " ",
          "P", "R", "I", "V", "A", "T", "E", " ", "K", "E", "Y", "-", "-", "-", "-",
          "-">>,
     class |-> {}, min |-> 0, max |-> 0]>>

\* the number of characters of class that line has from index from on
RECURSIVE ClassRun(_, _, _)
ClassRun(line, from, class) ==
    IF from > Len(line) \/ line[from] \notin class THEN 0
    ELSE 1 + ClassRun(line, from + 1, class)

\* the length of the match of rule p that starts at index k of line, 0 if none
MatchAt(p, line, k) ==
    IF k + Len(p.prefix) - 1 > Len(line) THEN 0
    ELSE IF SubSeq(line, k, k + Len(p.prefix) - 1) # p.prefix THEN 0
    ELSE LET run == ClassRun(line, k + Len(p.prefix), p.class) IN
         IF run < p.min THEN 0
         ELSE Len(p.prefix) + (IF p.max = Unbounded \/ run <= p.max THEN run ELSE p.max)

\* pattern.Pattern.FindAllString(line, -1): the matches from index from on,
\* leftmost first, none overlapping another
RECURSIVE FindAllString(_, _, _)
FindAllString(p, line, from) ==
    IF from > Len(line) THEN <<>>
    ELSE LET n == MatchAt(p, line, from) IN
         IF n > 0
            THEN <<SubSeq(line, from, from + n - 1)>> \o FindAllString(p, line, from + n)
            ELSE FindAllString(p, line, from + 1)

\* the path AnalyzeFile is called with
ScannedPath == "app.js"

\* mutant: the lines are numbered from 0
NewFindingZeroBased(number, type, match, severity, bits) ==
    [FilePath |-> ScannedPath, LineNumber |-> number - 1, Type |-> type, Match |-> match,
     Severity |-> severity, Entropy |-> bits]

\* Finding{...}
NewFinding(number, type, match, severity, bits) ==
    [FilePath |-> ScannedPath, LineNumber |-> number, Type |-> type, Match |-> match,
     Severity |-> severity, Entropy |-> bits]

\* the loop over secretPatterns, from rule k on
RECURSIVE patternFindings(_, _, _)
patternFindings(line, number, k) ==
    IF k > Len(secretPatterns) THEN <<>>
    ELSE LET pattern == secretPatterns[k]
             matches == FindAllString(pattern, line, 1)
         IN  [m \in 1..Len(matches) |->
                 NewFinding(number, pattern.Name, matches[m], pattern.Severity, 0)]
             \o patternFindings(line, number, k + 1)

\* the index of the first quote of line at or after from, 0 if there is none
RECURSIVE NextQuote(_, _)
NextQuote(line, from) ==
    IF from > Len(line) THEN 0
    ELSE IF line[from] \in Quotes THEN from
    ELSE NextQuote(line, from + 1)

\* quotedStringPattern.FindAllStringSubmatch(line, -1), match[1] of each match:
\* a match is a quote, 20 to 100 characters that are no quote, and a quote, so
\* it runs from one quote to the next one; the search goes on behind the match
RECURSIVE quotedStrings(_, _)
quotedStrings(line, from) ==
    LET p == NextQuote(line, from)
        q == IF p = 0 THEN 0 ELSE NextQuote(line, p + 1)
    IN  IF q = 0 THEN <<>>
        ELSE IF q - p - 1 >= MinEntropyLength /\ q - p - 1 <= MaxEntropyLength
            THEN <<SubSeq(line, p + 1, q - 1)>> \o quotedStrings(line, q + 1)
            ELSE quotedStrings(line, q)

\* strings.Contains
Contains(s, sub) ==
    \E k \in 1..(Len(s) - Len(sub) + 1) : SubSeq(s, k, k + Len(sub) - 1) = sub

falsePositiveIndicators == {
    <<"e", "x", "a", "m", "p", "l", "e">>,
    <<"s", "a", "m", "p", "l", "e">>,
    <<"p", "l", "a", "c", "e", "h", "o", "l", "d", "e", "r">>,
    <<"y", "o", "u", "r", "_">>,
    <<"y", "o", "u", "r", "-">>,
    <<"x", "x", "x">>,
    <<"a", "b", "c">>,
    <<"t", "e", "s", "t">>,
    <<"d", "e", "m", "o">>,
    <<"l", "o", "c", "a", "l", "h", "o", "s", "t">>,
    <<"u", "n", "d", "e", "f", "i", "n", "e", "d">>,
    <<"n", "u", "l", "l">>}

\* uuidPattern.MatchString
uuidPattern(s) ==
    /\ Len(s) = 36
    /\ \A k \in 1..36 :
          IF k \in {9, 14, 19, 24} THEN s[k] = "-"
          ELSE s[k] \in Digits \cup {"a", "b", "c", "d", "e", "f"}

looksLikeFalsePositive(s) ==
    LET lowered == ToLower(s) IN
    \/ HasPrefix(lowered, <<"h", "t", "t", "p", ":", "/", "/">>)
    \/ HasPrefix(lowered, <<"h", "t", "t", "p", "s", ":", "/", "/">>)
    \/ Contains(s, <<"/">>) /\ (HasPrefix(s, <<"/">>) \/ Contains(s, <<".", "/">>))
    \/ \E indicator \in falsePositiveIndicators : Contains(lowered, indicator)
    \/ uuidPattern(lowered)

findHighEntropyStrings(line, number) ==
    LET matches == quotedStrings(line, 1)
        kept == SelectSeq(matches, LAMBDA content :
                    /\ ~looksLikeFalsePositive(content)
                    /\ CalculateEntropy(content) >= EntropyThreshold)
    IN  [m \in 1..Len(kept) |->
            NewFinding(number, "High Entropy String", kept[m], "MEDIUM",
                       CalculateEntropy(kept[m]))]

\* what one iteration of the scan loop appends for a line that is not blank
lineFindings(line, number) ==
    patternFindings(line, number, 1) \o findHighEntropyStrings(line, number)

\* the empty line
EmptyLine ==
    <<>>

\* a line of two spaces
SpaceLine ==
    <<" ", " ">>

\* the first line of an RSA private key
PemLine ==
    <<"-", "-", "-", "-", "-", "B", "E", "G", "I", "N", " ", "R", "S", "A", " ", "P",
      "R", "I", "V", "A", "T", "E", " ", "K", "E", "Y", "-", "-", "-", "-", "-">>

\* an AWS access key id and a Stripe publishable key on one line
KeysLine ==
    <<"A", "K", "I", "A", "I", "O", "S", "F", "O", "D", "N", "N", "7", "E", "X", "A",
      "M", "P", "L", "E", " ", "p", "k", "_", "l", "i", "v", "e", "_", "4", "e", "C",
      "3", "9", "H", "q", "L", "y", "j", "W", "D", "a", "r", "j", "t", "T", "1", "z",
      "d", "p", "7", "d", "c">>

\* a quoted string of 23 different characters: log2(23) = 4.52 bits
HighLine ==
    <<"k", "=", "\"", "Q", "W", "E", "R", "T", "Y", "U", "I", "O", "P", "A", "S", "D",
      "F", "G", "H", "J", "K", "L", "Z", "X", "C", "V", "\"">>

\* a quoted string of 22 different characters: log2(22) = 4.46 bits
LowLine ==
    <<"k", "=", "\"", "Q", "W", "E", "R", "T", "Y", "U", "I", "O", "P", "A", "S", "D",
      "F", "G", "H", "J", "K", "L", "Z", "X", "C", "\"">>

\* a quoted string of 32 characters, 8 of them twice and 16 once: 4.5 bits
EdgeLine ==
    <<"k", "=", "\"", "Q", "W", "E", "R", "T", "Y", "U", "I", "O", "P", "A", "S", "D",
      "F", "G", "H", "J", "K", "L", "Z", "X", "C", "V", "B", "Q", "W", "E", "R", "T",
      "Y", "U", "I", "\"">>

\* a quoted string of more than 4.5 bits that holds the marker "test"
MarkerLine ==
    <<"k", "=", "\"", "t", "e", "s", "t", "_", "Q", "W", "E", "R", "T", "Y", "U", "I",
      "O", "P", "A", "S", "D", "F", "G", "H", "J", "K", "L", "Z", "X", "C", "V", "\"">>

\* an apostrophe 24 characters before a double-quoted string of 4.52 bits
ApostropheLine ==
    <<"i", "t", "'", "s", " ", "t", "h", "e", " ", "p", "r", "o", "d", "u", "c", "t",
      "i", "o", "n", " ", "t", "o", "k", "e", "n", ":", " ", "\"", "Q", "W", "E", "R",
      "T", "Y", "U", "I", "O", "P", "A", "S", "D", "F", "G", "H", "J", "K", "L", "Z",
      "X", "C", "V", "\"">>

\* a quoted string of 23 different characters, one of them three bytes long
EuroLine ==
    <<"k", "=", "\"", "Q", "W", "E", "R", "T", "Y", "U", "I", "O", "P", "A", "S", "D",
      "F", "G", "H", "J", "K", "L", "Z", "X", "C", "U+20AC", "\"">>

LineTexts == {EmptyLine, SpaceLine, PemLine, KeysLine, HighLine, LowLine, EdgeLine, MarkerLine, ApostropheLine, EuroLine}

\* the spaces that follow the text of a line: none, as many as still fit the
\* buffer of the scanner, one buffer full
Pads == {0, MaxScanTokenSize - 100, MaxScanTokenSize}

\* a line of the file: text followed by pad spaces
TextLines == [text : LineTexts, pad : Pads]

\* the scanner cannot hand the line out: the buffer is full before its end
TooLong(l) == ByteLen(l.text) + l.pad >= MaxScanTokenSize

\* len(strings.TrimSpace(line)) == 0
isBlank(l) == TrimSpace(l.text) = <<>>

\* the analyze machine at rest
IdleAnalyze ==
    /\ anPc = "idle"
    /\ file = <<>>
    /\ openFails = FALSE
    /\ scanPos = 0
    /\ lineNumber = 0
    /\ findings = <<>>

-----------------------------------------------------------------------------
(* handleQuarantine, ConfirmQuarantine, QuarantineFiles *)

InitQuarantine ==
    /\ IdleWalk
    /\ IdleMerge
    /\ IdleEntropy
    /\ IdleAnalyze
    /\ entry \in {"main", "api"}
    /\ args \in BSeq(SrcPaths, MaxPaths)
    /\ entry = "main" => args # <<>>
    /\ pc = IF entry = "main" THEN "handle" ELSE "mkdir"
    /\ filePaths = IF entry = "main" THEN <<>> ELSE args
    /\ stdin \in Streams
    /\ confirmInput = <<>>
    /\ confirmErr = nil
    /\ confirmed = "none"
    /\ \E d \in {"dir", "absent", "uncreatable"}, old \in {<<>>, OldVault} :
          /\ dirState = d
          /\ d # "dir" => old = <<>>
          /\ fs = SrcFiles @@ old
    /\ fs0 = fs
    /\ now = 0
    /\ i = 0
    /\ movedFiles = {}
    /\ results = <<>>
    /\ qerr = nil
    /\ targetPath = NoPath
    /\ err = nil
    /\ preExisting = {}
    /\ IdleScan

\* handleQuarantine: the unique file paths of the findings, in map order
HandleQuarantine ==
    /\ pc = "handle"
    /\ filePaths' \in Orderings(Range(args))
    /\ pc' = "confirm"
    /\ UNCHANGED <<svars, wvars, mvars, evars, avars>>
    /\ UNCHANGED <<entry, args, stdin, confirmInput, confirmErr, confirmed, dirState,
                   fs, fs0, now, i, movedFiles, results, qerr, targetPath, err, preExisting>>

\* ConfirmQuarantine: a bufio.Reader of its own takes what the stream hands
\* over (at least the first line) and is dropped after the first line is read
ConfirmQuarantine ==
    /\ pc = "confirm"
    /\ LET r == ReadString(stdin) IN
        /\ confirmInput' = r.input
        /\ confirmErr' = r.err
        /\ confirmed' = ConfirmAccepts(r.input, r.err)
        /\ \E k \in 0..Len(r.rest) : stdin' = SubSeq(r.rest, k + 1, Len(r.rest))
        /\ pc' = IF confirmed' THEN "mkdir" ELSE "cancelled"
    /\ UNCHANGED <<svars, wvars, mvars, evars, avars>>
    /\ UNCHANGED <<entry, args, filePaths, dirState, fs, fs0, now, i, movedFiles,
                   results, qerr, targetPath, err, preExisting>>

\* os.MkdirAll(targetDir, 0700): the error returned and the directory afterwards
MkdirAllResult(d) ==
    IF d = "uncreatable"
        THEN [err |-> ErrMkdir, dir |-> d]
        ELSE [err |-> nil, dir |-> "dir"]

\* mutant: the error of os.MkdirAll is not checked
SetupNeverFails(e) == FALSE

\* if err := os.MkdirAll(...); err != nil { return nil, ... }
SetupFailed(e) == e # nil

\* QuarantineFiles up to its loop
MkdirAll ==
    /\ pc = "mkdir"
    /\ LET r == MkdirAllResult(dirState) IN
        /\ dirState' = r.dir
        /\ IF SetupFailed(r.err)
              THEN /\ qerr' = r.err
                   /\ pc' = "failed"
                   /\ UNCHANGED i
              ELSE /\ i' = 1
                   /\ pc' = "loop"
                   /\ UNCHANGED qerr
    /\ UNCHANGED <<svars, wvars, mvars, evars, avars>>
    /\ UNCHANGED <<entry, args, filePaths, stdin, confirmInput, confirmErr, confirmed,
                   fs, fs0, now, movedFiles, results, targetPath, err, preExisting>>

\* a path the loop has seen before
SkipDuplicate ==
    /\ pc = "loop"
    /\ i <= Len(filePaths)
    /\ AlreadyMoved(movedFiles, filePaths[i])
    /\ i' = i + 1
    /\ UNCHANGED <<svars, wvars, mvars, evars, avars>>
    /\ UNCHANGED <<entry, args, pc, filePaths, stdin, confirmInput, confirmErr, confirmed,
                   dirState, fs, fs0, now, movedFiles, results, qerr, targetPath, err,
                   preExisting>>

\* if err != nil { ... } else { prompt }
CopySucceeded(e) == e = nil

\* resolveCollision and copyFile for the next new path
CopyStep ==
    /\ pc = "loop"
    /\ i <= Len(filePaths)
    /\ ~AlreadyMoved(movedFiles, filePaths[i])
    /\ LET src  == filePaths[i]
           cand == Join(TargetDir, Base(src))
       IN
        /\ movedFiles' = movedFiles \cup {src}
        /\ \E t \in (IF Exists(fs, cand) THEN now..MaxClock ELSE {now}) :
            /\ now' = t
            /\ targetPath' = resolveCollision(cand, fs, t)
        /\ preExisting' = DOMAIN fs
        /\ \E out \in copyFile(fs, dirState, src, targetPath') :
            /\ fs' = out.fs
            /\ err' = out.err
            /\ IF CopySucceeded(out.err)
                  THEN /\ pc' = "prompt"
                       /\ UNCHANGED <<results, i>>
                  ELSE /\ results' = Append(results, CopyFailed(NewResult(src), out.err))
                       /\ i' = i + 1
                       /\ pc' = "loop"
    /\ UNCHANGED <<svars, wvars, mvars, evars, avars>>
    /\ UNCHANGED <<entry, args, filePaths, stdin, confirmInput, confirmErr, confirmed,
                   dirState, fs0, qerr>>

ErrRemove == "remove: operation not permitted"

\* os.Remove(srcPath): the error returned and the files afterwards
osRemove(f, path) ==
    {[err |-> nil, fs |-> Remove(f, path)], [err |-> ErrRemove, fs |-> f]}

\* "Delete original file? (y/N)": read the answer, remove or keep the original
PromptStep ==
    /\ pc = "prompt"
    /\ LET src == filePaths[i]
           r   == ReadString(stdin)
       IN
        /\ stdin' = r.rest
        /\ IF IsYes(r.input)
              THEN \E out \in osRemove(fs, src) :
                      /\ fs' = out.fs
                      /\ err' = out.err
                      /\ results' = Append(results,
                                           IF out.err # nil
                                              THEN DeleteFailed(NewResult(src))
                                              ELSE Deleted(NewResult(src), targetPath))
              ELSE /\ results' = Append(results, Kept(NewResult(src), targetPath))
                   /\ UNCHANGED <<fs, err>>
    /\ i' = i + 1
    /\ pc' = "loop"
    /\ UNCHANGED <<svars, wvars, mvars, evars, avars>>
    /\ UNCHANGED <<entry, args, filePaths, confirmInput, confirmErr, confirmed, dirState,
                   fs0, now, movedFiles, qerr, targetPath, preExisting>>

\* return results, nil
ReturnResults ==
    /\ pc = "loop"
    /\ i > Len(filePaths)
    /\ pc' = "returned"
    /\ UNCHANGED <<svars, wvars, mvars, evars, avars>>
    /\ UNCHANGED <<entry, args, filePaths, stdin, confirmInput, confirmErr, confirmed,
                   dirState, fs, fs0, now, i, movedFiles, results, qerr, targetPath, err,
                   preExisting>>

NextQuarantine ==
    \/ HandleQuarantine
    \/ ConfirmQuarantine
    \/ MkdirAll
    \/ SkipDuplicate
    \/ CopyStep
    \/ PromptStep
    \/ ReturnResults

SpecQuarantine == InitQuarantine /\ [][NextQuarantine]_vars

-----------------------------------------------------------------------------
(* runScan *)

\* the quarantine machine at rest, while the scan machine runs
IdleQuarantine ==
    /\ entry = "none"
    /\ args = <<>>
    /\ pc = "idle"
    /\ filePaths = <<>>
    /\ stdin = <<>>
    /\ confirmInput = <<>>
    /\ confirmErr = nil
    /\ confirmed = "none"
    /\ dirState = "absent"
    /\ fs = <<>>
    /\ fs0 = <<>>
    /\ now = 0
    /\ i = 0
    /\ movedFiles = {}
    /\ results = <<>>
    /\ qerr = nil
    /\ targetPath = NoPath
    /\ err = nil
    /\ preExisting = {}

\* runScan once its goroutines are started: the walker, numWorkers workers
\* (wg.Add(1) for each) and the goroutine that waits for them
InitScan ==
    /\ IdleQuarantine
    /\ IdleWalk
    /\ IdleMerge
    /\ IdleEntropy
    /\ IdleAnalyze
    /\ showAll \in BOOLEAN
    /\ kinds \in BSeq(FileKinds, MaxFiles)
    /\ walkNext = 1
    /\ walkerPc = "walk"
    /\ filePathsCh = MakeChan
    /\ resultsCh = MakeChan
    /\ fileCountCh = MakeChan
    /\ wg = numWorkers
    /\ worker = [w \in Workers |-> [pc |-> "recv", found |-> <<>>, localCount |-> 0]]
    /\ closerPc = "wait"
    /\ aggPc = "results"
    /\ allFindings = <<>>
    /\ totalFiles = 0

\* Walk: filePaths <- path, blocking while the stream is full
WalkSend ==
    /\ walkerPc = "walk"
    /\ walkNext <= Len(kinds)
    /\ HasRoom(filePathsCh, PathCap)
    /\ filePathsCh' = Send(filePathsCh, walkNext)
    /\ walkNext' = walkNext + 1
    /\ UNCHANGED <<qvars, wvars, mvars, evars, avars>>
    /\ UNCHANGED <<showAll, kinds, walkerPc, resultsCh, fileCountCh, wg, worker,
                   closerPc, aggPc, allFindings, totalFiles>>

\* mutant: the stream is left open
WalkerNoClose(ch) == ch

\* what the walker goroutine does to the stream after Walk returned
WalkerClose(ch) == Close(ch)

\* Walk returns; close(filePaths)
WalkDone ==
    /\ walkerPc = "walk"
    /\ walkNext > Len(kinds)
    /\ filePathsCh' = WalkerClose(filePathsCh)
    /\ walkerPc' = "done"
    /\ UNCHANGED <<qvars, wvars, mvars, evars, avars>>
    /\ UNCHANGED <<showAll, kinds, walkNext, resultsCh, fileCountCh, wg, worker,
                   closerPc, aggPc, allFindings, totalFiles>>

\* for filePath := range filePaths: localCount++, AnalyzeFile(filePath)
WorkerRecv(w) ==
    /\ worker[w].pc = "recv"
    /\ filePathsCh.buf # <<>>
    /\ LET found == AnalyzeFile(kinds, Head(filePathsCh.buf)) IN
        worker' = [worker EXCEPT ![w] =
                      [pc |-> IF found = <<>> THEN "recv" ELSE "send",
                       found |-> found,
                       localCount |-> @.localCount + 1]]
    /\ filePathsCh' = Receive(filePathsCh)
    /\ UNCHANGED <<qvars, wvars, mvars, evars, avars>>
    /\ UNCHANGED <<showAll, kinds, walkNext, walkerPc, resultsCh, fileCountCh, wg,
                   closerPc, aggPc, allFindings, totalFiles>>

\* results <- finding, blocking while the stream is full; a send on a closed
\* channel panics
WorkerSend(w) ==
    /\ worker[w].pc = "send"
    /\ IF resultsCh.closed
          THEN /\ worker' = [worker EXCEPT ![w].pc = "panic"]
               /\ UNCHANGED resultsCh
          ELSE /\ HasRoom(resultsCh, ResultCap)
               /\ resultsCh' = Send(resultsCh, Head(worker[w].found))
               /\ worker' = [worker EXCEPT
                                ![w].found = Tail(@),
                                ![w].pc = IF Tail(worker[w].found) = <<>> THEN "recv" ELSE "send"]
    /\ UNCHANGED <<qvars, wvars, mvars, evars, avars>>
    /\ UNCHANGED <<showAll, kinds, walkNext, walkerPc, filePathsCh, fileCountCh, wg,
                   closerPc, aggPc, allFindings, totalFiles>>

\* the range loop over filePaths ends
WorkerLoopEnd(w) ==
    /\ worker[w].pc = "recv"
    /\ Drained(filePathsCh)
    /\ worker' = [worker EXCEPT ![w].pc = "count"]
    /\ UNCHANGED <<qvars, wvars, mvars, evars, avars>>
    /\ UNCHANGED <<showAll, kinds, walkNext, walkerPc, filePathsCh, resultsCh, fileCountCh,
                   wg, closerPc, aggPc, allFindings, totalFiles>>

\* fileCountCh <- localCount; the deferred wg.Done()
WorkerCount(w) ==
    /\ worker[w].pc = "count"
    /\ IF fileCountCh.closed
          THEN /\ worker' = [worker EXCEPT ![w].pc = "panic"]
               /\ UNCHANGED <<fileCountCh, wg>>
          ELSE /\ HasRoom(fileCountCh, numWorkers)
               /\ fileCountCh' = Send(fileCountCh, worker[w].localCount)
               /\ wg' = wgDone(wg)
               /\ worker' = [worker EXCEPT ![w].pc = "done"]
    /\ UNCHANGED <<qvars, wvars, mvars, evars, avars>>
    /\ UNCHANGED <<showAll, kinds, walkNext, walkerPc, filePathsCh, resultsCh,
                   closerPc, aggPc, allFindings, totalFiles>>

\* wg.Wait(); close(results)
CloseResults ==
    /\ closerPc = "wait"
    /\ WaitDone(wg)
    /\ resultsCh' = Close(resultsCh)
    /\ closerPc' = "closeCount"
    /\ UNCHANGED <<qvars, wvars, mvars, evars, avars>>
    /\ UNCHANGED <<showAll, kinds, walkNext, walkerPc, filePathsCh, fileCountCh, wg,
                   worker, aggPc, allFindings, totalFiles>>

\* close(fileCountCh)
CloseCount ==
    /\ closerPc = "closeCount"
    /\ fileCountCh' = Close(fileCountCh)
    /\ closerPc' = "done"
    /\ UNCHANGED <<qvars, wvars, mvars, evars, avars>>
    /\ UNCHANGED <<showAll, kinds, walkNext, walkerPc, filePathsCh, resultsCh, wg,
                   worker, aggPc, allFindings, totalFiles>>

\* for finding := range results: filter by severity, append
AggRecv ==
    /\ aggPc = "results"
    /\ resultsCh.buf # <<>>
    /\ resultsCh' = Receive(resultsCh)
    /\ allFindings' = IF Dropped(showAll, Head(resultsCh.buf))
                         THEN allFindings
                         ELSE Append(allFindings, Head(resultsCh.buf))
    /\ UNCHANGED <<qvars, wvars, mvars, evars, avars>>
    /\ UNCHANGED <<showAll, kinds, walkNext, walkerPc, filePathsCh, fileCountCh, wg,
                   worker, closerPc, aggPc, totalFiles>>

\* the range loop over results ends
AggResultsEnd ==
    /\ aggPc = "results"
    /\ Drained(resultsCh)
    /\ aggPc' = "counts"
    /\ UNCHANGED <<qvars, wvars, mvars, evars, avars>>
    /\ UNCHANGED <<showAll, kinds, walkNext, walkerPc, filePathsCh, resultsCh, fileCountCh,
                   wg, worker, closerPc, allFindings, totalFiles>>

\* for count := range fileCountCh: totalFiles += count
AggCount ==
    /\ aggPc = "counts"
    /\ fileCountCh.buf # <<>>
    /\ totalFiles' = AddCount(totalFiles, Head(fileCountCh.buf))
    /\ fileCountCh' = Receive(fileCountCh)
    /\ UNCHANGED <<qvars, wvars, mvars, evars, avars>>
    /\ UNCHANGED <<showAll, kinds, walkNext, walkerPc, filePathsCh, resultsCh, wg,
                   worker, closerPc, aggPc, allFindings>>

\* return allFindings, totalFiles
AggReturn ==
    /\ aggPc = "counts"
    /\ Drained(fileCountCh)
    /\ aggPc' = "returned"
    /\ UNCHANGED <<qvars, wvars, mvars, evars, avars>>
    /\ UNCHANGED <<showAll, kinds, walkNext, walkerPc, filePathsCh, resultsCh, fileCountCh,
                   wg, worker, closerPc, allFindings, totalFiles>>

NextScan ==
    \/ WalkSend
    \/ WalkDone
    \/ \E w \in Workers : WorkerRecv(w)
    \/ \E w \in Workers : WorkerSend(w)
    \/ \E w \in Workers : WorkerLoopEnd(w)
    \/ \E w \in Workers : WorkerCount(w)
    \/ CloseResults
    \/ CloseCount
    \/ AggRecv
    \/ AggResultsEnd
    \/ AggCount
    \/ AggReturn

SpecScan == InitScan /\ [][NextScan]_vars

\* the Go scheduler runs every goroutine that can take a step
FairSpecScan == SpecScan /\ WF_vars(NextScan)

-----------------------------------------------------------------------------
(* scanner.Walk over filepath.WalkDir *)

InitWalk ==
    /\ IdleQuarantine
    /\ IdleScan
    /\ IdleMerge
    /\ IdleEntropy
    /\ IdleAnalyze
    /\ walkPc = "start"
    /\ tree \in Trees(MaxEntries)
    /\ allowedExtensions \in ExtConfigs
    /\ \E name \in RootNames, e \in {"none", "lstat", "readdir"} :
          /\ e # "none" => name = <<"p", "r", "o", "j">>
          /\ rootName = name
          /\ rootErr = e
    /\ todo = <<>>
    /\ emitted = <<>>

\* WalkDir: os.Lstat(root); on an error the callback gets it and the walk ends
WalkDirRoot ==
    /\ walkPc = "start"
    /\ walkPc' = "walk"
    /\ todo' = IF rootErr = "lstat" THEN <<>> ELSE <<0>>
    /\ UNCHANGED <<rootName, rootErr, tree, allowedExtensions, emitted>>
    /\ UNCHANGED <<qvars, svars, mvars, evars, avars>>

\* walkDir on a directory: the callback, then os.ReadDir, the callback again if
\* reading failed (with the entries read before the failure kept), then the
\* entries in name order before what was left to visit
VisitDir ==
    /\ walkPc = "walk"
    /\ todo # <<>>
    /\ EntryOf(Head(todo)).isDir
    /\ LET n == Head(todo)
           d == EntryOf(n)
           first == walkFn(d, nil, allowedExtensions).ret
           again == walkFn(d, ErrReadDir, allowedExtensions).ret
       IN  IF first = SkipDir THEN todo' = Tail(todo)
           ELSE IF first # nil THEN todo' = <<>>
           ELSE IF ~d.err THEN todo' = ChildrenOf(n) \o Tail(todo)
           ELSE IF again = SkipDir THEN todo' = Tail(todo)
           ELSE IF again # nil THEN todo' = <<>>
           ELSE \E k \in 0..Len(ChildrenOf(n)) :
                    todo' = SubSeq(ChildrenOf(n), 1, k) \o Tail(todo)
    /\ UNCHANGED <<walkPc, rootName, rootErr, tree, allowedExtensions, emitted>>
    /\ UNCHANGED <<qvars, svars, mvars, evars, avars>>

\* walkDir on a file: the callback, which sends the path or not; an error it
\* returned ends the walk
VisitFile ==
    /\ walkPc = "walk"
    /\ todo # <<>>
    /\ ~EntryOf(Head(todo)).isDir
    /\ LET n == Head(todo)
           r == walkFn(EntryOf(n), nil, allowedExtensions)
       IN  /\ emitted' = IF r.send THEN Append(emitted, PathOf(n)) ELSE emitted
           /\ todo' = IF r.ret = nil THEN Tail(todo) ELSE <<>>
    /\ UNCHANGED <<walkPc, rootName, rootErr, tree, allowedExtensions>>
    /\ UNCHANGED <<qvars, svars, mvars, evars, avars>>

\* WalkDir returns, and Walk with it
WalkReturn ==
    /\ walkPc = "walk"
    /\ todo = <<>>
    /\ walkPc' = "done"
    /\ UNCHANGED <<rootName, rootErr, tree, allowedExtensions, todo, emitted>>
    /\ UNCHANGED <<qvars, svars, mvars, evars, avars>>

NextWalk ==
    \/ WalkDirRoot
    \/ VisitDir
    \/ VisitFile
    \/ WalkReturn

SpecWalk == InitWalk /\ [][NextWalk]_vars

-----------------------------------------------------------------------------
(* scanner.MergeExtensions *)

InitMerge ==
    /\ IdleQuarantine
    /\ IdleScan
    /\ IdleWalk
    /\ IdleEntropy
    /\ IdleAnalyze
    /\ mergePc = "call"
    /\ extras \in BSeq(ExtraStrings, MaxExtras)
    /\ maps = <<DefaultTextExtensions>>
    /\ merged = 0
    /\ mergeIdx = 0

\* merged := make(map[string]bool)
MergeMake ==
    /\ mergePc = "call"
    /\ maps' = Append(maps, {})
    /\ merged' = Len(maps) + 1
    /\ mergePc' = "copy"
    /\ UNCHANGED <<extras, mergeIdx>>
    /\ UNCHANGED <<qvars, svars, wvars, evars, avars>>

\* for ext, val := range DefaultTextExtensions { merged[ext] = val }
MergeCopy ==
    /\ mergePc = "copy"
    /\ maps' = [maps EXCEPT ![merged] = @ \cup maps[DefaultsRef]]
    /\ mergeIdx' = 1
    /\ mergePc' = "add"
    /\ UNCHANGED <<extras, merged>>
    /\ UNCHANGED <<qvars, svars, wvars, evars, avars>>

\* one iteration of: for _, ext := range additional
MergeAdd ==
    /\ mergePc = "add"
    /\ mergeIdx <= Len(extras)
    /\ maps' = [maps EXCEPT ![merged] = @ \cup {NormalizeExt(extras[mergeIdx])}]
    /\ mergeIdx' = mergeIdx + 1
    /\ UNCHANGED <<mergePc, extras, merged>>
    /\ UNCHANGED <<qvars, svars, wvars, evars, avars>>

\* return merged
MergeReturn ==
    /\ mergePc = "add"
    /\ mergeIdx > Len(extras)
    /\ mergePc' = "done"
    /\ UNCHANGED <<extras, maps, merged, mergeIdx>>
    /\ UNCHANGED <<qvars, svars, wvars, evars, avars>>

NextMerge ==
    \/ MergeMake
    \/ MergeCopy
    \/ MergeAdd
    \/ MergeReturn

SpecMerge == InitMerge /\ [][NextMerge]_vars

-----------------------------------------------------------------------------
(* analyzer.CalculateEntropy *)

InitEntropy ==
    /\ IdleQuarantine
    /\ IdleScan
    /\ IdleWalk
    /\ IdleMerge
    /\ IdleAnalyze
    /\ entPc = "call"
    /\ str \in BSeq(EntropyChars, MaxStrLen)
    /\ entropy = 0

CallCalculateEntropy ==
    /\ entPc = "call"
    /\ entropy' = CalculateEntropy(str)
    /\ entPc' = "done"
    /\ UNCHANGED str
    /\ UNCHANGED <<qvars, svars, wvars, mvars, avars>>

NextEntropy == CallCalculateEntropy

SpecEntropy == InitEntropy /\ [][NextEntropy]_vars

-----------------------------------------------------------------------------
(* analyzer.AnalyzeFile *)

InitAnalyze ==
    /\ IdleQuarantine
    /\ IdleScan
    /\ IdleWalk
    /\ IdleMerge
    /\ IdleEntropy
    /\ anPc = "open"
    /\ file \in BSeq(TextLines, MaxFileLines)
    /\ openFails \in BOOLEAN
    /\ scanPos = 0
    /\ lineNumber = 0
    /\ findings = <<>>

\* os.Open: on an error the empty findings are returned
OpenFile ==
    /\ anPc = "open"
    /\ anPc' = IF openFails THEN "done" ELSE "scan"
    /\ UNCHANGED <<file, openFails, scanPos, lineNumber, findings>>
    /\ UNCHANGED <<qvars, svars, wvars, mvars, evars>>

\* scanner.Scan() hands out the next line: one iteration of the loop
ScanLine ==
    /\ anPc = "scan"
    /\ scanPos < Len(file)
    /\ ~TooLong(file[scanPos + 1])
    /\ scanPos' = scanPos + 1
    /\ lineNumber' = lineNumber + 1
    /\ findings' = IF isBlank(file[scanPos + 1])
                      THEN findings
                      ELSE findings \o lineFindings(file[scanPos + 1].text, lineNumber + 1)
    /\ UNCHANGED <<anPc, file, openFails>>
    /\ UNCHANGED <<qvars, svars, wvars, mvars, evars>>

\* scanner.Scan() returns false at the end of the file
ScanEOF ==
    /\ anPc = "scan"
    /\ scanPos = Len(file)
    /\ anPc' = "done"
    /\ UNCHANGED <<file, openFails, scanPos, lineNumber, findings>>
    /\ UNCHANGED <<qvars, svars, wvars, mvars, evars>>

\* scanner.Scan() returns false with bufio.ErrTooLong, which nothing reads
ScanTooLong ==
    /\ anPc = "scan"
    /\ scanPos < Len(file)
    /\ TooLong(file[scanPos + 1])
    /\ anPc' = "done"
    /\ UNCHANGED <<file, openFails, scanPos, lineNumber, findings>>
    /\ UNCHANGED <<qvars, svars, wvars, mvars, evars>>

NextAnalyze ==
    \/ OpenFile
    \/ ScanLine
    \/ ScanEOF
    \/ ScanTooLong

SpecAnalyze == InitAnalyze /\ [][NextAnalyze]_vars

-----------------------------------------------------------------------------
(* Vocabulary of the properties *)

Last(s) == s[Len(s)]

CopyErrors == {ErrOpen, ErrStat, ErrCreate, ErrCopy, ErrSync}

\* the lines of the operator's input that read "y" once trimmed and lowered
YesLines == {<<"y", "\n">>, <<" ", "Y", " ", "\n">>, <<"y">>}

\* the lines ConfirmQuarantine takes for a confirmation
ConfirmLines == {<<"y", "\n">>, <<" ", "Y", " ", "\n">>, <<"y", "e", "s", "\n">>}

\* the answer the next prompt will read
NextAnswer == IF stdin = <<>> THEN <<>> ELSE Head(stdin)

\* the path the loop is working on
CurrentSrc == filePaths[i]

\* the step is the copy of CurrentSrc
IsCopyStep == pc = "loop" /\ movedFiles' # movedFiles

\* the step is the prompt for CurrentSrc
IsPromptStep == pc = "prompt" /\ pc' = "loop"

InVault(path) == Dir(path) = TargetDir

\* the distinct elements of s in the order of their first occurrence
RECURSIVE FirstOccurrences(_)
FirstOccurrences(s) ==
    IF s = <<>>
        THEN <<>>
        ELSE LET r == FirstOccurrences(SubSeq(s, 1, Len(s) - 1))
                 x == s[Len(s)]
             IN IF x \in Range(r) THEN r ELSE Append(r, x)

-----------------------------------------------------------------------------
(* C1 .. C9: the quarantine protocol, under SpecQuarantine *)

\* C1: a copy step leaves every file that is already in the vault as it was,
\* and the path it copies to (the MoveResult's NewPath) is the path of no file
\* that existed when the copy started.
C1_NeverOverwrites ==
    [][IsCopyStep =>
          /\ \A p \in DOMAIN fs : InVault(p) => (Exists(fs', p) /\ fs'[p] = fs[p])
          /\ CopySucceeded(err') => ~Exists(fs, targetPath')]_vars

\* C2: under handleQuarantine, a declined or unreadable confirmation ends in
\* "cancelled" with QuarantineFiles never entered and the files as they were,
\* and no step changes a file or the vault directory unless ConfirmQuarantine
\* returned true before it.
C2_ConfirmFirst ==
    /\ [](entry = "main" /\ pc \notin {"handle", "confirm"}
            /\ (confirmErr # nil \/ confirmInput \notin ConfirmLines)
          => pc = "cancelled" /\ fs = fs0 /\ results = <<>> /\ movedFiles = {})
    /\ [][entry = "main" /\ (fs' # fs \/ dirState' # dirState) => confirmed = TRUE]_vars

\* C2 witness: the confirmation could not be read (the stream ended inside
\* the line "y") and handleQuarantine returned with files still to move.
C2_Witness ==
    /\ pc = "cancelled"
    /\ confirmErr = EOF
    /\ confirmInput = <<"y">>
    /\ filePaths # <<>>
    /\ fs = fs0

\* C3: a file disappears only in the prompt step of that very file, after
\* copyFile returned nil and the target holds its bytes, and on an answer that
\* reads "y"; the prompt is reached only after a successful copy, and a path
\* whose copy failed keeps its original.
C3_RemoveOnlyAfterCopyAndYes ==
    /\ [][\A p \in DOMAIN fs :
             ~Exists(fs', p) =>
                 /\ pc = "prompt"
                 /\ p = CurrentSrc
                 /\ err = nil
                 /\ Exists(fs, targetPath) /\ fs[targetPath] = fs[p]
                 /\ NextAnswer \in YesLines]_vars
    /\ [](pc = "prompt" => err = nil /\ Exists(fs, targetPath)
                           /\ fs[targetPath] = fs[CurrentSrc])
    /\ [](\A k \in DOMAIN results :
             results[k].Error \in CopyErrors /\ Exists(fs0, results[k].OriginalPath)
                 => Exists(fs, results[k].OriginalPath))
    /\ [][IsCopyStep /\ err' # nil => stdin' = stdin /\ pc' = "loop"]_vars

\* C3 witness: an original has been removed and its bytes are in the vault,
\* next to a path whose copy failed and whose original is still there.
C3_Witness ==
    /\ pc = "returned"
    /\ filePaths = <<PathB, PathA>>
    /\ results[1].Error = ErrCopy
    /\ Exists(fs, PathB)
    /\ results[2].Success
    /\ ~Exists(fs, PathA)
    /\ Exists(fs, results[2].NewPath)
    /\ fs[results[2].NewPath] = "bytesA"

\* C4: the results are one per distinct path of the paths the loop has passed,
\* in the order of their first occurrence.
C4_OnePerDistinctPath ==
    pc \in {"loop", "prompt", "returned"} =>
        /\ [k \in 1..Len(results) |-> results[k].OriginalPath]
               = FirstOccurrences(SubSeq(filePaths, 1, i - 1))
        /\ pc = "returned" => i = Len(filePaths) + 1

\* C4 witness: the same path given twice, one result returned.
C4_Witness ==
    /\ pc = "returned"
    /\ filePaths = <<PathA, PathA>>
    /\ Len(results) = 1

\* C5 as stated: with no file of the same base name in the vault when the copy
\* started and the answer "y", the prompt step leaves the source absent, the
\* destination target_dir/basename(src) with the source's bytes, and a
\* successful MoveResult with that NewPath.
C5_AsStated ==
    [][IsPromptStep /\ NextAnswer \in YesLines
         /\ Join(TargetDir, Base(CurrentSrc)) \notin preExisting
       => LET dst == Join(TargetDir, Base(CurrentSrc)) IN
            /\ ~Exists(fs', CurrentSrc)
            /\ Exists(fs', dst) /\ fs'[dst] = fs[CurrentSrc]
            /\ Last(results').Success
            /\ Last(results').NewPath = dst]_vars

\* C5 amended: the same, when os.Remove returns no error.
C5_MoveCompletes ==
    [][IsPromptStep /\ NextAnswer \in YesLines
         /\ Join(TargetDir, Base(CurrentSrc)) \notin preExisting
         /\ err' = nil
       => LET dst == Join(TargetDir, Base(CurrentSrc)) IN
            /\ ~Exists(fs', CurrentSrc)
            /\ Exists(fs', dst) /\ fs'[dst] = fs[CurrentSrc]
            /\ Last(results').OriginalPath = CurrentSrc
            /\ Last(results').Success
            /\ Last(results').Error = nil
            /\ Last(results').NewPath = dst]_vars

\* C5 witness: a/secret.txt moved into an empty vault on the answer "y".
C5_Witness ==
    /\ pc = "returned"
    /\ filePaths = <<PathA>>
    /\ ~Exists(fs0, Join(TargetDir, SecretTxt))
    /\ ~Exists(fs, PathA)
    /\ Exists(fs, Join(TargetDir, SecretTxt))
    /\ fs[Join(TargetDir, SecretTxt)] = "bytesA"
    /\ results = <<[OriginalPath |-> PathA, NewPath |-> Join(TargetDir, SecretTxt),
                    Success |-> TRUE, Error |-> nil]>>

\* C6: when the answer does not read "y", the prompt step appends a successful
\* MoveResult whose NewPath is the copy, and the source and the copy both exist.
C6_KeepOriginal ==
    [][IsPromptStep /\ NextAnswer \notin YesLines
       => /\ Last(results').OriginalPath = CurrentSrc
          /\ Last(results').Success
          /\ Last(results').NewPath = targetPath
          /\ Exists(fs', CurrentSrc)
          /\ Exists(fs', targetPath)
          /\ fs' = fs]_vars

\* C6 witness: the prompt read no "y" (the input is used up), the original is
\* kept and the copy holds its bytes.
C6_Witness ==
    /\ pc = "returned"
    /\ entry = "api"
    /\ filePaths = <<PathB>>
    /\ stdin = <<>>
    /\ Len(results) = 1
    /\ results[1].Success
    /\ Exists(fs, PathB)
    /\ Exists(fs, results[1].NewPath)
    /\ fs[results[1].NewPath] = "bytesB"

\* C7: when the answer reads "y" and os.Remove returns an error, the prompt
\* step appends a failed MoveResult whose error is none of copyFile's, and the
\* original and the copy both exist.
C7_DeleteFailureIsDistinct ==
    [][IsPromptStep /\ NextAnswer \in YesLines /\ err' # nil
       => /\ Last(results').OriginalPath = CurrentSrc
          /\ ~Last(results').Success
          /\ Last(results').Error \notin CopyErrors \cup {nil}
          /\ Exists(fs', CurrentSrc)
          /\ Exists(fs', targetPath) /\ fs'[targetPath] = fs[CurrentSrc]]_vars

\* C7 witness: copied, answered "y", the removal failed.
C7_Witness ==
    /\ pc = "loop"
    /\ results # <<>>
    /\ Last(results).Error = ErrDelete
    /\ err = ErrRemove
    /\ Exists(fs, Last(results).OriginalPath)
    /\ Exists(fs, targetPath)

\* C8: a copyFile error appends, for that path, a MoveResult with Success
\* false, the error and an empty NewPath, and the loop goes on to the next
\* path; QuarantineFiles returns a nil error and one result per distinct path.
C8_FailureIsPerFile ==
    /\ [][IsCopyStep /\ err' # nil
          => /\ results' = Append(results,
                                  [OriginalPath |-> CurrentSrc, NewPath |-> NoPath,
                                   Success |-> FALSE, Error |-> err'])
             /\ err' \in CopyErrors
             /\ i' = i + 1
             /\ pc' = "loop"]_vars
    /\ [](pc = "returned" =>
             /\ qerr = nil
             /\ Len(results) = Cardinality(Range(filePaths))
             /\ Range(filePaths) = {results[k].OriginalPath : k \in DOMAIN results})

\* C8 witness: the first path failed to open and the second was still moved.
C8_Witness ==
    /\ pc = "returned"
    /\ filePaths = <<PathGone, PathA>>
    /\ Len(results) = 2
    /\ results[1].Error = ErrOpen
    /\ results[2].Success
    /\ ~Exists(fs, PathA)

\* C9: while the target directory cannot be created, QuarantineFiles never
\* reaches its loop: it ends in "failed" with the mkdir error, no MoveResult,
\* no path taken up and every file as it was.
C9_SetupFailureAborts ==
    /\ dirState = "uncreatable" =>
          /\ pc \notin {"loop", "prompt", "returned"}
          /\ results = <<>>
          /\ movedFiles = {}
          /\ i = 0
          /\ fs = fs0
    /\ pc = "failed" <=> qerr # nil
    /\ pc = "failed" => qerr = ErrMkdir /\ dirState = "uncreatable"

\* C9 witness: QuarantineFiles returned the mkdir error with paths to move.
C9_Witness ==
    /\ pc = "failed"
    /\ qerr = ErrMkdir
    /\ Len(filePaths) = MaxPaths

-----------------------------------------------------------------------------
(* C10: the scan pipeline, under FairSpecScan *)

ScanFinished ==
    /\ aggPc = "returned"
    /\ walkerPc = "done"
    /\ walkNext = Len(kinds) + 1
    /\ \A w \in Workers : worker[w].pc = "done"
    /\ closerPc = "done"
    /\ Drained(filePathsCh)
    /\ Drained(resultsCh)
    /\ Drained(fileCountCh)

\* C10: every run of runScan reaches the state where the walker has finished,
\* every worker has exited, the three streams are closed and empty and the
\* aggregator has returned; until then some goroutine can always take a step.
C10_ScanTerminates ==
    /\ <>ScanFinished
    /\ [](aggPc # "returned" => ENABLED NextScan)

\* C10 witness: a finished scan of more files than the path stream holds, with
\* more findings than the results stream holds.
C10_Witness ==
    /\ ScanFinished
    /\ Len(kinds) > PathCap
    /\ Len(allFindings) > ResultCap
    /\ totalFiles = Len(kinds)

-----------------------------------------------------------------------------
(* C11..C16: runScan, under SpecScan *)

RECURSIVE SumSeq(_)
SumSeq(s) == IF s = <<>> THEN 0 ELSE Head(s) + SumSeq(Tail(s))

\* the paths Walk has sent so far
PathsSent == walkNext - 1

\* the sum of the local counts of the workers picked by Pick
SumLocal(Pick(_)) ==
    SumSeq([w \in Workers |-> IF Pick(w) THEN worker[w].localCount ELSE 0])

AnyWorker(w) == TRUE

Reported(w) == worker[w].pc = "done"

\* every finding AnalyzeFile produces for the files of the tree
RECURSIVE FindingsFrom(_)
FindingsFrom(path) ==
    IF path > Len(kinds) THEN <<>>
    ELSE AnalyzeFile(kinds, path) \o FindingsFrom(path + 1)

\* C11: the files-scanned count runScan returns is the number of paths the
\* walker sent.  Every path sent is either still queued or counted in exactly
\* one worker's local count (a receive takes the head of the stream and adds
\* one to the count of the one worker that took it, whether or not the file
\* can be opened), the counts reported are those of the workers that exited,
\* each reported once, and the total returned is their sum.
C11_CountsEveryPath ==
    /\ [](PathsSent = Len(filePathsCh.buf) + SumLocal(AnyWorker))
    /\ [](SumSeq(fileCountCh.buf) + totalFiles = SumLocal(Reported))
    /\ [](Len(fileCountCh.buf) <= Cardinality({w \in Workers : Reported(w)}))
    /\ [](aggPc = "returned" => totalFiles = Len(kinds) /\ PathsSent = Len(kinds))
    /\ [][\A w \in Workers :
            worker'[w].localCount # worker[w].localCount =>
                /\ filePathsCh.buf # <<>>
                /\ filePathsCh'.buf = Tail(filePathsCh.buf)
                /\ worker'[w].localCount = worker[w].localCount + 1
                /\ \A v \in Workers \ {w} : worker'[v] = worker[v]]_vars

\* C11 witness: runScan returned 2 for a tree of an unreadable file and a file
\* with findings, each worker having counted one of them.
C11_Witness ==
    /\ aggPc = "returned"
    /\ kinds = <<"unreadable", "mixed">>
    /\ totalFiles = 2
    /\ \A w \in Workers : worker[w].localCount = 1

\* C12: without showAll the list runScan builds holds HIGH findings only; with
\* showAll every finding taken from the results stream is appended, so the
\* list returned has as many findings as AnalyzeFile produced.
C12_SeverityFilter ==
    /\ [](~showAll => \A k \in DOMAIN allFindings : allFindings[k].Severity = "HIGH")
    /\ [][showAll /\ resultsCh'.buf # resultsCh.buf /\ Len(resultsCh'.buf) < Len(resultsCh.buf)
            => allFindings' = Append(allFindings, Head(resultsCh.buf))]_vars
    /\ [](showAll /\ aggPc = "returned" => Len(allFindings) = Len(FindingsFrom(1)))

\* C12 witness: a scan without showAll returned the HIGH finding of a file that
\* also has a MEDIUM finding, and only that one.
C12_Witness ==
    /\ aggPc = "returned"
    /\ ~showAll
    /\ kinds = <<"mixed">>
    /\ allFindings = <<[FilePath |-> 1, LineNumber |-> 3, Severity |-> "HIGH"]>>

C14_Backpressure ==
    /\ [](Len(filePathsCh.buf) <= PathCap /\ Len(resultsCh.buf) <= ResultCap)
    /\ [][/\ Len(filePathsCh'.buf) > Len(filePathsCh.buf) => Len(filePathsCh.buf) < PathCap
          /\ Len(resultsCh'.buf) > Len(resultsCh.buf) => Len(resultsCh.buf) < ResultCap]_vars

\* C14 witness: both streams are full, the path stream with the last path of
\* the tree, while a worker has a finding to push.
C14_Witness ==
    /\ Len(filePathsCh.buf) = PathCap
    /\ PathsSent = MaxFiles
    /\ Len(resultsCh.buf) = ResultCap
    /\ \E w \in Workers : worker[w].pc = "send"

\* C15: the path stream is closed once, by the walker goroutine, after Walk
\* has sent every path; only the walker's send adds to it, nothing is added
\* once it is closed, and a worker leaves its receive loop only when the
\* stream is closed and empty.
C15_PathStreamClose ==
    [][/\ filePathsCh'.closed # filePathsCh.closed =>
            /\ ~filePathsCh.closed
            /\ walkerPc = "walk" /\ walkerPc' = "done"
            /\ PathsSent = Len(kinds)
            /\ filePathsCh'.buf = filePathsCh.buf
       /\ Len(filePathsCh'.buf) > Len(filePathsCh.buf) =>
            /\ ~filePathsCh.closed
            /\ walkerPc = "walk"
            /\ walkNext' = walkNext + 1
            /\ filePathsCh'.buf = Append(filePathsCh.buf, walkNext)
       /\ \A w \in Workers :
            worker[w].pc = "recv" /\ worker'[w].pc = "count" =>
                filePathsCh.closed /\ filePathsCh.buf = <<>>]_vars

\* C15 witness: the walker has closed the stream after sending every path, one
\* worker has left its loop and the other is still analyzing the last path.
C15_Witness ==
    /\ filePathsCh.closed
    /\ walkerPc = "done"
    /\ Len(kinds) = MaxFiles
    /\ \E w, v \in Workers : worker[w].pc = "count" /\ worker[v].pc = "send"

\* C16, as stated: the aggregator takes nothing from the results stream while
\* a worker is still running.
C16_AsStated ==
    [][Len(resultsCh'.buf) < Len(resultsCh.buf) =>
            \A w \in Workers : worker[w].pc = "done"]_vars

\* C16: the aggregator drains the results stream while the workers run; what
\* happens only after all workers have finished is the end of its drain loop
\* (the stream is closed after wg.Wait()).
C16_DrainEndsAfterWorkers ==
    [][aggPc = "results" /\ aggPc' # "results" =>
            /\ \A w \in Workers : worker[w].pc = "done"
            /\ resultsCh.closed /\ resultsCh.buf = <<>>]_vars

\* C16 witness: the aggregator has collected a finding while a worker still
\* has one to push, and later left its loop: here it is past the loop with
\* every worker done.
C16_Witness ==
    /\ aggPc = "counts"
    /\ Len(allFindings) > ResultCap
    /\ \A w \in Workers : worker[w].pc = "done"

-----------------------------------------------------------------------------
(* C17..C20: scanner.Walk, under SpecWalk *)

FileNodes == {n \in DOMAIN tree : ~tree[n].isDir}

\* the directories between the root and entry n
RECURSIVE AncestorsOf(_)
AncestorsOf(n) ==
    IF tree[n].parent = 0 THEN {}
    ELSE {tree[n].parent} \cup AncestorsOf(tree[n].parent)

DotNamed(name) == name # <<>> /\ Head(name) = "."

\* the name is on the deny-list or starts with a dot
PrunedName(name) == name \in skipDirs \/ DotNamed(name)

\* entry n lies in a directory below the root that has such a name
InsidePruned(n) == \E a \in AncestorsOf(n) : PrunedName(tree[a].name)

\* an error hits entry n or a directory above it
Faulted(n) ==
    \/ rootErr # "none"
    \/ tree[n].err
    \/ \E a \in AncestorsOf(n) : tree[a].err

\* the name and the size of file n pass the file rules and Info() works
Eligible(n) == walkFn(tree[n], nil, allowedExtensions).send

Emitted(n) == \E k \in DOMAIN emitted : emitted[k] = PathOf(n)

\* the walk goes into the root: Lstat works, and the root's name is "." or is
\* no name Walk prunes
RootWalked == rootErr # "lstat" /\ (rootName = Dot \/ ~PrunedName(rootName))

\* the files the walk owes: eligible, in no pruned directory, hit by no error
Owed(n) == n \in FileNodes /\ Eligible(n) /\ ~InsidePruned(n) /\ ~Faulted(n)

\* C17: Walk never sends a path that lies in a directory, at any depth below
\* the root, whose name is on the deny-list or starts with a dot; and when it
\* has returned from a root it went into, every eligible file outside such
\* directories that no error hit has been sent.
C17_PrunedDirsSkipped ==
    /\ \A n \in FileNodes : InsidePruned(n) => ~Emitted(n)
    /\ walkPc = "done" /\ RootWalked => \A n \in FileNodes : Owed(n) => Emitted(n)

\* C17 witness: the walk of proj is over; a.go in the root was sent, the
\* eligible a.go in dist was not.
C17_Witness ==
    /\ walkPc = "done"
    /\ rootName = <<"p", "r", "o", "j">>
    /\ Len(tree) = 3
    /\ tree[2].name = <<"d", "i", "s", "t">> /\ tree[3].parent = 2
    /\ Eligible(3)
    /\ emitted = <<PathOf(1)>>

\* C18: a root given by its resolved path and whose own name starts with a dot
\* is walked like any other: when Walk has returned, the eligible files below
\* it, outside pruned directories and hit by no error, have been sent.
C18_DotRootWalked ==
    walkPc = "done" /\ rootErr = "none" /\ DotNamed(rootName) /\ rootName # Dot
        => \A n \in FileNodes : Owed(n) => Emitted(n)

\* C19: an error on an entry never ends the walk: a step leaves what was left
\* to visit in place, whatever failed; the file whose Info() fails is not
\* sent; and when Walk has returned from a root it could read, every eligible
\* file that no error hit has been sent.
C19_ErrorsDoNotAbort ==
    /\ [][todo # <<>> =>
            \E k \in 0..Len(todo') : SubSeq(todo', k + 1, Len(todo')) = Tail(todo)]_vars
    /\ [](\A n \in FileNodes : tree[n].err => ~Emitted(n))
    /\ [](walkPc = "done" /\ rootErr # "lstat" /\ RootWalked
            => \A n \in FileNodes : Owed(n) => Emitted(n))

\* C19 witness: Info() failed on a.go, ReadDir failed on src, and t.xyz, which
\* comes after both, was sent before Walk returned.
C19_Witness ==
    /\ walkPc = "done"
    /\ Len(tree) = 3
    /\ ~tree[1].isDir /\ tree[1].err /\ tree[1].parent = 0
    /\ tree[2].isDir /\ tree[2].err /\ tree[2].parent = 0
    /\ tree[3].parent = 0
    /\ emitted = <<PathOf(3)>>

\* the file's name passes the hidden-file rule and the extension rule
NamePasses(n) ==
    LET allowed == IF allowedExtensions.isNil THEN MapOf(DefaultTextExtensions)
                   ELSE allowedExtensions IN
    ~hiddenSkipped(tree[n].name, allowed) /\ ~extSkipped(tree[n].name, allowed)

\* C20: no file Walk sends is empty or larger than 5 MiB, under any extension
\* configuration; and a file of exactly 5 MiB whose name passes, in no pruned
\* directory and hit by no error, has been sent when Walk has returned.
C20_SizeRule ==
    /\ \A n \in FileNodes :
          Emitted(n) => tree[n].size > 0 /\ tree[n].size <= 5 * 1024 * 1024
    /\ walkPc = "done" /\ RootWalked =>
          \A n \in FileNodes :
              /\ tree[n].size = 5 * 1024 * 1024
              /\ NamePasses(n) /\ ~InsidePruned(n) /\ ~Faulted(n)
              => Emitted(n)

\* C20 witness: a.go of exactly 5 MiB in the root was sent, a.go of 5 MiB + 1
\* in src was not.
C20_Witness ==
    /\ walkPc = "done"
    /\ Len(tree) = 3
    /\ tree[2].isDir /\ tree[3].parent = 2
    /\ \A n \in {1, 3} : n \in FileNodes /\ NamePasses(n) /\ ~tree[n].err
    /\ tree[1].size = 5 * 1024 * 1024
    /\ tree[3].size = 5 * 1024 * 1024 + 1
    /\ ~InsidePruned(3)
    /\ emitted = <<PathOf(1)>>

-----------------------------------------------------------------------------
(* C27, C28: the merge of the findings and the closing of the streams, under
   SpecScan *)

\* how often x occurs in the sequence s
Count(s, x) == Cardinality({k \in DOMAIN s : s[k] = x})

\* the findings of the whole tree that pass the severity filter
KeptFindings == SelectSeq(FindingsFrom(1), LAMBDA f : showAll \/ f.Severity = "HIGH")

\* C27: the list runScan returns holds every finding AnalyzeFile produced that
\* passes the severity filter exactly once; on the way no finding is in the
\* list more often than it was produced, and the list only changes when the
\* aggregator loop appends the finding it took from the results stream.
C27_MergeKeepsFindings ==
    /\ [](\A k \in DOMAIN allFindings :
             Count(allFindings, allFindings[k]) <= Count(KeptFindings, allFindings[k]))
    /\ [](aggPc = "returned" =>
             /\ Len(allFindings) = Len(KeptFindings)
             /\ \A k \in DOMAIN KeptFindings : Count(allFindings, KeptFindings[k]) = Count(KeptFindings, KeptFindings[k]))
    /\ [][allFindings' # allFindings =>
             /\ aggPc = "results" /\ aggPc' = "results"
             /\ resultsCh.buf # <<>>
             /\ allFindings' = Append(allFindings, Head(resultsCh.buf))
             /\ resultsCh'.buf = Tail(resultsCh.buf)
             /\ worker' = worker]_vars

\* C27 witness: two files with two findings each, analyzed by different
\* workers; the four findings are in the list returned, those of the second
\* file first.
C27_Witness ==
    /\ aggPc = "returned"
    /\ showAll
    /\ kinds = <<"mixed", "mixed">>
    /\ Len(allFindings) = 4
    /\ allFindings[1].FilePath = 2
    /\ \A w \in Workers : worker[w].localCount = 1

\* C28: no worker ever sends on a closed stream; the results stream and the
\* count stream are each closed once, by the closer goroutine, when every
\* worker has exited with nothing left to send; and a worker about to send its
\* local count always finds a free slot in the count stream.
C28_NoSendAfterClose ==
    /\ [](\A w \in Workers : worker[w].pc # "panic")
    /\ [](\A w \in Workers :
             worker[w].pc = "count" =>
                 ~fileCountCh.closed /\ Len(fileCountCh.buf) < numWorkers)
    /\ [](\A w \in Workers : worker[w].pc = "send" => ~resultsCh.closed)
    /\ [][/\ resultsCh'.closed # resultsCh.closed =>
                /\ ~resultsCh.closed /\ closerPc = "wait"
                /\ \A w \in Workers : worker[w].pc = "done" /\ worker[w].found = <<>>
          /\ fileCountCh'.closed # fileCountCh.closed =>
                /\ ~fileCountCh.closed /\ closerPc = "closeCount" /\ resultsCh.closed
                /\ \A w \in Workers : worker[w].pc = "done"
          /\ Len(resultsCh'.buf) > Len(resultsCh.buf) => ~resultsCh.closed
          /\ Len(fileCountCh'.buf) > Len(fileCountCh.buf) => ~fileCountCh.closed]_vars

\* C28 witness: both streams are closed, every worker has exited after pushing
\* findings, and the count stream holds one count per worker.
C28_Witness ==
    /\ resultsCh.closed /\ fileCountCh.closed
    /\ Len(fileCountCh.buf) = numWorkers
    /\ \A w \in Workers : worker[w].pc = "done" /\ worker[w].localCount = 1
    /\ kinds = <<"mixed", "high">>

-----------------------------------------------------------------------------
(* C30: the operator's input, under SpecQuarantine *)

\* the input stream after one line was taken from it
OneLineConsumed(stream) == IF stream = <<>> THEN <<>> ELSE Tail(stream)

\* C30: the input is consumed one line per prompt, in order: ConfirmQuarantine
\* takes the first line and leaves every later line in the stream, each
\* keep/delete prompt takes the next line, and no other step (a failed copy
\* among them) takes any.
C30_OneLinePerPrompt ==
    [][IF pc = "confirm" \/ IsPromptStep
          THEN stdin' = OneLineConsumed(stdin)
          ELSE stdin' = stdin]_vars

-----------------------------------------------------------------------------
(* C21, C29: the extension rules of Walk, under SpecWalk *)

\* the size of file n is within the size rules
SizeOk(n) == tree[n].size > 0 /\ tree[n].size <= 5 * 1024 * 1024

\* C21: with the permissive configuration (AllExtensions(), a nil map) every
\* non-hidden file within the size rules, in no pruned directory and hit by no
\* error, has been sent when Walk has returned, whatever its extension; and no
\* file outside the size rules is sent.
C21_PermissiveSendsAll ==
    /\ allowedExtensions = AllExtensions =>
          \A n \in FileNodes : Emitted(n) => SizeOk(n)
    /\ walkPc = "done" /\ allowedExtensions = AllExtensions /\ RootWalked =>
          \A n \in FileNodes :
              ~DotNamed(tree[n].name) /\ SizeOk(n) /\ ~InsidePruned(n) /\ ~Faulted(n)
                  => Emitted(n)

DotEnvNames == {
    <<".", "e", "n", "v">>,
    <<".", "e", "n", "v", ".", "l", "o", "c", "a", "l">>,
    <<".", "e", "n", "v", ".", "d", "e", "v", "e", "l", "o", "p", "m", "e", "n", "t">>,
    <<".", "e", "n", "v", ".", "p", "r", "o", "d", "u", "c", "t", "i", "o", "n">>}

\* C29: under the default extension set, a file named .env, .env.local,
\* .env.development or .env.production, within the size rules, in no pruned
\* directory and hit by no error, has been sent when Walk has returned.
C29_DotEnvFilesSent ==
    walkPc = "done" /\ allowedExtensions = MapOf(DefaultTextExtensions) /\ RootWalked =>
        \A n \in FileNodes :
            tree[n].name \in DotEnvNames /\ SizeOk(n) /\ ~InsidePruned(n) /\ ~Faulted(n)
                => Emitted(n)

-----------------------------------------------------------------------------
(* C22: MergeExtensions, under SpecMerge *)

\* an extra in lower case, with a dot in front unless it has one
DottedLower(e) == ToLower(IF e # <<>> /\ Head(e) = "." THEN e ELSE <<".">> \o e)

\* C22: the map MergeExtensions returns holds exactly the default extensions
\* and, for each extra, the extra in lower case with a leading dot put in front
\* if it had none; any other list with the same extras, in whatever order and
\* however often repeated, gives the same map; and the map of the defaults is
\* never written.
C22_MergeIsUnion ==
    /\ mergePc # "idle" => maps[DefaultsRef] = DefaultTextExtensions
    /\ mergePc = "done" =>
          /\ merged # DefaultsRef
          /\ maps[merged] =
                DefaultTextExtensions \cup {DottedLower(e) : e \in Elements(extras)}
          /\ \A other \in BSeq(ExtraStrings, MaxExtras) :
                Elements(other) = Elements(extras)
                    => MergeExtensions(other).keys = maps[merged]

\* C22 witness: XYZ and .xyz were merged into the one new key .xyz
C22_Witness ==
    /\ mergePc = "done"
    /\ extras = <<<<"X", "Y", "Z">>, <<".", "x", "y", "z">>>>
    /\ maps[merged] = DefaultTextExtensions \cup {<<".", "x", "y", "z">>}
    /\ <<".", "x", "y", "z">> \notin DefaultTextExtensions

-----------------------------------------------------------------------------
(* C23: CalculateEntropy, under SpecEntropy *)

\* C23: CalculateEntropy returns 0 for the empty string and for every string
\* made of one character repeated, whatever the character and the length.
C23_RepeatedCharIsZero ==
    entPc = "done" /\ Cardinality(Elements(str)) <= 1 => entropy = 0

-----------------------------------------------------------------------------
(* C24, C25, C26: the detection passes of AnalyzeFile, under SpecAnalyze *)

\* the substrings of line of 20 to 100 characters that stand between two
\* quotes of the same kind and hold no quote
QuotedSubstrings(line) ==
    {SubSeq(line, p + 1, q - 1) : <<p, q>> \in
        {pq \in (DOMAIN line) \X (DOMAIN line) :
            /\ pq[1] < pq[2]
            /\ line[pq[1]] \in Quotes
            /\ line[pq[2]] = line[pq[1]]
            /\ pq[2] - pq[1] - 1 >= 20
            /\ pq[2] - pq[1] - 1 <= 100
            /\ \A k \in (pq[1] + 1)..(pq[2] - 1) : line[k] \notin Quotes}}

\* the Shannon entropy of s over its characters, p(c) = count(c) / length, in
\* millionths of a bit
ShannonEntropy(s) ==
    IF s = <<>> THEN 0 ELSE SumTerms(charCount(s), Elements(s), Len(s)) \div Len(s)

EntropyType == "High Entropy String"

\* C24: for every line scanned and every substring of it of 20 to 100
\* characters between matching quotes, the findings hold an entropy finding
\* for the substring (severity MEDIUM, its Shannon entropy attached) exactly
\* when no false-positive rule rejects it and its Shannon entropy is at least
\* 4.5 bits; every other finding has entropy 0 and the severity of its rule.
C24_EntropyPassIff ==
    /\ \A k \in 1..scanPos :
          ~isBlank(file[k]) =>
              \A content \in QuotedSubstrings(file[k].text) :
                  (\E j \in DOMAIN findings :
                       findings[j] = NewFinding(k, EntropyType, content, "MEDIUM",
                                                ShannonEntropy(content)))
                  <=> (/\ ~looksLikeFalsePositive(content)
                       /\ ShannonEntropy(content) >= EntropyThreshold)
    /\ \A j \in DOMAIN findings :
          findings[j].Type # EntropyType =>
              /\ findings[j].Entropy = 0
              /\ \E r \in DOMAIN secretPatterns :
                    /\ secretPatterns[r].Name = findings[j].Type
                    /\ secretPatterns[r].Severity = findings[j].Severity

\* C25: when AnalyzeFile has returned from a file it could open, the findings
\* hold, for every line of the file that is not blank, whatever the two passes
\* find on that line.
C25_EveryLineScanned ==
    anPc = "done" /\ ~openFails =>
        \A k \in DOMAIN file :
            ~isBlank(file[k]) =>
                Elements(lineFindings(file[k].text, k)) \subseteq Elements(findings)

\* C26: every finding carries the 1-based index of a line of the file that is
\* not blank and that holds its match; and the scan of a blank line adds no
\* finding while the line counter goes up by one.
C26_LineNumbers ==
    /\ [](\A j \in DOMAIN findings :
             /\ findings[j].LineNumber \in 1..scanPos
             /\ ~isBlank(file[findings[j].LineNumber])
             /\ findings[j] \in
                    Elements(lineFindings(file[findings[j].LineNumber].text,
                                          findings[j].LineNumber)))
    /\ [][scanPos' = scanPos + 1 =>
             /\ lineNumber' = scanPos'
             /\ isBlank(file[scanPos']) => findings' = findings]_vars

\* C26 witness: a finding on line 2, behind a blank first line
C26_Witness ==
    /\ anPc = "done"
    /\ Len(file) = 2
    /\ isBlank(file[1])
    /\ findings # <<>>
    /\ \A j \in DOMAIN findings : findings[j].LineNumber = 2

====
